---- MODULE Spec2Model ----
(***************************************************************************)
(* Model of the Riemann-zero "resonance hunter" scripts.                   *)
(*                                                                         *)
(* Numbers.  The scripts work on Python floats.  Here every float is an    *)
(* exact number on a grid: zeros (gamma), constants and distances are      *)
(* integers counted in model units, tolerances and statistics are exact    *)
(* rationals <<numerator, denominator>> with a positive denominator.       *)
(* Python's  gamma % c  for c > 0 is the mathematical remainder in [0, c), *)
(* which is what the operator % computes on integers.                      *)
(*                                                                         *)
(* Hunters.  "alpha" is zvt_alpha_hunter.py, "scanner" is scanner_z.py     *)
(* (one worker process per constant) and "planck" is                       *)
(* plank_resonance_hunter.py, whose scan, statistics and main loop are     *)
(* repeated line for line in the Rydberg, Alcubierre, light-speed,         *)
(* nuclear-cosmic and spacetime hunters.                                   *)
(*                                                                         *)
(* Specifications.  SpecScan applies the scan and the statistics to one    *)
(* input, SpecPool is one call of scanner_z's process pool, SpecMC one     *)
(* parallel Monte Carlo or perturbation pass, Spec a whole run of a hunter *)
(* script with SIGINT/SIGTERM arriving in the script's process once the    *)
(* handlers are installed, SpecLoop the batch loop and the report of such  *)
(* a run on a longer list of zeros already loaded, SpecSig the run with    *)
(* signals that also reach the worker processes of scanner_z's pools, and  *)
(* SpecKI the run with a KeyboardInterrupt raised in the main thread or a  *)
(* signal arriving before its handler is installed.  In the run the zeros  *)
(* of the file are counted in tenths.                                      *)
(***************************************************************************)
EXTENDS Integers, Sequences, FiniteSets, TLC

\* ------------------------------------------------------------------ bounds
\* Longest zero list handed to the scan functions.
MaxScanZeros == 3
\* Largest gamma (in model units) in a scanned zero list.
MaxGamma == 6
\* Longest zero list handed to the worker pool.
MaxPoolZeros == 2
\* MAX_WORKERS = os.cpu_count(): processes of the pool.
MaxWorkers == 2
\* self.n_simulations (10000 in montecarlo.py, 5000 in validacao.py).
n_simulations == 3

VARIABLES
    \* --- the scan functions applied to one input (SpecScan)
    scanZeros,      \* the zero list: a sequence of <<index, gamma>>
    scanHunter,     \* which script's functions are applied
    scanConst,      \* the constant value c
    scanTol,        \* the tolerance, a rational
    scanRes,        \* result of the resonance scan for (c, tolerance)
    scanStats,      \* result of enhanced_statistical_analysis
    scanPc,         \* "idle", "found", "analysed"
    \* --- scanner_z.find_multi_tolerance_resonances, one call (SpecPool)
    poolZeros,      \* the zero list passed in
    poolTasks,      \* the task tuples handed to executor.map, in order
    poolState,      \* per task: "queued", "running" or "done"
    poolOut,        \* per task: the value its worker returned
    poolYield,      \* index of the next result executor.map yields
    poolFinished,   \* the task indices in the order their workers finished
    all_results,    \* the dictionary being filled: const_name -> results
    poolPc,         \* "idle", "submitting", "mapping", "returned"
    \* --- run_monte_carlo_parallel / run_perturbation_analysis (SpecMC)
    mcKind,         \* "montecarlo" (montecarlo.py) or "perturbation" (validacao.py)
    mcLevel,        \* index of the perturbation level being run
    mcFutures,      \* the submitted futures, in submission order
    mcYielded,      \* positions of the futures as_completed has yielded, in order
    mcResults,      \* the list the collecting loop appends to
    mcStored,       \* validacao: simulation_results[level] = level_results
    mcBroken,       \* the executor's broken flag: a worker process of the pool died
    mcPc,           \* "idle", "enter", "submit", "collect", "exiting", "returned", "raised"
    \* --- one hunter script run from start to exit (Spec, SpecKI)
    script,         \* which hunter script runs
    force_reload,   \* scanner_z: the script was started with --force-reload
    fileState,      \* ZEROS_FILE: "ok", "unreadable" (cannot be opened or decoded), "missing"
    fileLines,      \* the lines of ZEROS_FILE, each a sequence of characters
    cache,          \* CACHE_FILE: [kind |-> "absent" | "corrupt" | "list", data |-> ...]
    run,            \* number of the run of the script (the cache file outlives a run)
    shutdown_requested, \* the global flag set by signal_handler
    pc,             \* position of the main thread
    line_num,       \* load_zeros_from_file: lines taken from the file so far
    loaded,         \* load_zeros_from_file: its local list  zeros  being built
    all_zeros,      \* what load_enhanced_cache returned
    batch_start,    \* main loop: the range variable  i, start of the batch (0-based)
    batch_num,      \* main loop: number of the next batch
    session_results, \* main loop: one summary per batch analysed
    best_overall,   \* main loop: best resonance so far, or None
    reportCalls,    \* calls of generate_comprehensive_report in this run
    outcome,        \* how the top-level try block ended
    finallyRuns,    \* executions of the top-level finally block in this run
    kiRaised,       \* positions at which a KeyboardInterrupt was raised in this run
    pool_exception, \* scanner_z: what the pool the main thread waits in will raise, or "None"
    batches,        \* the slices handed to the batch analysis in this run, in order
    report,         \* what the report of this run says, or None
    returned        \* what load_enhanced_cache returned in each run so far, and from where

scanVars == <<scanZeros, scanHunter, scanConst, scanTol, scanRes, scanStats, scanPc>>
poolVars == <<poolZeros, poolTasks, poolState, poolOut, poolYield, poolFinished,
             all_results, poolPc>>

mcVars == <<mcKind, mcLevel, mcFutures, mcYielded, mcResults, mcStored, mcBroken,
           mcPc>>

mainVars == <<script, force_reload, fileState, fileLines, cache, run, shutdown_requested, pc,
              line_num, loaded, all_zeros, batch_start, batch_num, session_results,
              best_overall, reportCalls, outcome, finallyRuns, kiRaised, pool_exception,
              batches, report, returned>>

vars == <<scanVars, poolVars, mcVars, mainVars>>

\* ---------------------------------------------------------------- rationals
\* Python's None where a dictionary is expected, and float('inf').
None == [none |-> TRUE]
Inf == <<1, 0>>
\* A call that raises the exception e instead of returning.
Raised(e) == [raises |-> e]

Rat(n, d) == <<n, d>>
RInt(n) == <<n, 1>>
\* a * b and a / b on rationals; the denominator stays positive (b # 0 in RDiv).
RMul(a, b) == <<a[1] * b[1], a[2] * b[2]>>
RDiv(a, b) ==
    IF b[1] < 0 THEN <<(0 - a[1]) * b[2], a[2] * (0 - b[1])>>
    ELSE <<a[1] * b[2], a[2] * b[1]>>
RLess(a, b) == a[1] * b[2] < b[1] * a[2]
REq(a, b) == a[1] * b[2] = b[1] * a[2]
RPos(a) == a[1] > 0

Min2(a, b) == IF a <= b THEN a ELSE b
Abs(x) == IF x < 0 THEN 0 - x ELSE x

\* --------------------------------------------------------------- the hunters
AbsoluteHunters == {"alpha", "scanner"}
RelativeHunters == {"planck"}
Hunters == AbsoluteHunters \cup RelativeHunters

\* TOLERANCE_LEVELS: a decreasing list of tolerances (six powers of ten in the
\* scripts, three levels here).  The Planck family's levels are relative
\* errors, fractions of the constant.
TOLERANCE_LEVELS(hunter) ==
    IF hunter \in AbsoluteHunters
    THEN << Rat(5, 2), Rat(3, 2), Rat(1, 2) >>
    ELSE << Rat(3, 8), Rat(1, 4), Rat(1, 8) >>

\* Constant values the scans are run against (positive, as every constant of
\* every script is).
ScanConsts == {1, 3, 4, 7}

\* mod_val = gamma % const_value; min_distance = min(mod_val, const_value - mod_val)
min_distance_onesided(gamma, const_value) == gamma % const_value

min_distance(gamma, const_value) ==
    LET mod_val == gamma % const_value
    IN  Min2(mod_val, const_value - mod_val)

\* The test that decides whether a zero is collected.
\*   alpha, scanner:   min_distance < tolerance
\*   planck family:    relative_error = min_distance / const_value
\*                     relative_error < tolerance
is_resonance_absolute(hunter, gamma, const_value, tolerance) ==
    RLess(RInt(min_distance(gamma, const_value)), tolerance)

is_resonance(hunter, gamma, const_value, tolerance) ==
    IF hunter \in AbsoluteHunters
    THEN RLess(RInt(min_distance(gamma, const_value)), tolerance)
    ELSE RLess(RDiv(RInt(min_distance(gamma, const_value)), RInt(const_value)),
               tolerance)

\* The tuple appended for a collected zero.
resonance_entry(hunter, z, const_value, tolerance) ==
    IF hunter \in AbsoluteHunters
    THEN << z[1], z[2], min_distance(z[2], const_value), tolerance >>
    ELSE << z[1], z[2], min_distance(z[2], const_value), tolerance,
            RDiv(RInt(min_distance(z[2], const_value)), RInt(const_value)) >>

\* The inner loop  "for n, gamma in zeros: ... resonances.append(...)".
RECURSIVE scan_from(_, _, _, _, _, _)
scan_from(hunter, zeros, const_value, tolerance, k, resonances) ==
    IF k > Len(zeros) THEN resonances
    ELSE scan_from(hunter, zeros, const_value, tolerance, k + 1,
           IF is_resonance(hunter, zeros[k][2], const_value, tolerance)
           THEN Append(resonances, resonance_entry(hunter, zeros[k], const_value, tolerance))
           ELSE resonances)

resonances_for(hunter, zeros, const_value, tolerance) ==
    scan_from(hunter, zeros, const_value, tolerance, 1, << >>)

SeqRange(s) == { s[i] : i \in DOMAIN s }

\* find_resonances_for_constant(args) of scanner_z: one worker's whole task.
find_resonances_for_constant(const_name, const_value, zeros, tolerances) ==
    << const_name,
       [ t \in SeqRange(tolerances) |-> resonances_for("scanner", zeros, const_value, t) ] >>

\* find_multi_tolerance_resonances of the sequential hunters: every constant of
\* constants_dict against every level of TOLERANCE_LEVELS.
find_multi_tolerance_resonances(hunter, zeros, constants_dict) ==
    [ const_name \in DOMAIN constants_dict |->
        [ t \in SeqRange(TOLERANCE_LEVELS(hunter)) |->
            resonances_for(hunter, zeros, constants_dict[const_name], t) ] ]

\* ------------------------------------------------- enhanced_statistical_analysis
\* expected_random: total_zeros * (2 * tolerance / constant_value) where the
\* tolerance is absolute, total_zeros * (2 * tolerance) where it is relative.
expected_random_no_factor(hunter, total_zeros, constant_value, tolerance) ==
    IF hunter \in AbsoluteHunters
    THEN RMul(RInt(total_zeros), RDiv(tolerance, RInt(constant_value)))
    ELSE RMul(RInt(total_zeros), tolerance)

expected_random_of(hunter, total_zeros, constant_value, tolerance) ==
    IF hunter \in AbsoluteHunters
    THEN RMul(RInt(total_zeros), RDiv(RMul(RInt(2), tolerance), RInt(constant_value)))
    ELSE RMul(RInt(total_zeros), RMul(RInt(2), tolerance))

\* p_expected, the probability handed to the binomial test: 2 * tolerance /
\* constant_value (absolute tolerance), 2 * tolerance (relative tolerance).
p_expected(hunter, constant_value, tolerance) ==
    IF hunter \in AbsoluteHunters
    THEN RDiv(RMul(RInt(2), tolerance), RInt(constant_value))
    ELSE RMul(RInt(2), tolerance)

\* scipy's binomtest checks its argument:  ValueError unless 0 <= p <= 1.
binomtest_raises(p) == p[1] < 0 \/ RLess(RInt(1), p)

\* The 'basic_stats' record of the result, None, or the exception raised.
\* In order: the early return for empty lists; expected_random, whose division
\* raises for a zero constant; the guard of scanner_z (constant_value <= 0 or
\* tolerance <= 0: None); basic_stats; the binomial test, called with any
\* p_expected by the sequential hunters and only with 0 <= p_expected <= 1 by
\* scanner_z.  The values of the chi-squared, binomial, Poisson and K-S
\* entries are library results on these numbers and are not modelled.
enhanced_statistical_analysis(hunter, zeros, resonances, constant_value, tolerance) ==
    IF Len(zeros) = 0 \/ Len(resonances) = 0 THEN None
    ELSE IF hunter \in AbsoluteHunters /\ constant_value = 0
    THEN Raised("ZeroDivisionError")
    ELSE IF hunter = "scanner" /\ (constant_value <= 0 \/ ~RPos(tolerance)) THEN None
    ELSE IF hunter # "scanner"
            /\ binomtest_raises(p_expected(hunter, constant_value, tolerance))
    THEN Raised("ValueError")
    ELSE LET total_zeros == Len(zeros)
             resonant_count == Len(resonances)
             expected_random ==
                 expected_random_of(hunter, total_zeros, constant_value, tolerance)
         IN  [ total_zeros |-> total_zeros,
               resonant_count |-> resonant_count,
               expected_random |-> expected_random,
               resonance_rate |-> Rat(resonant_count, total_zeros),
               significance_factor |->
                   IF RPos(expected_random)
                   THEN RDiv(RInt(resonant_count), expected_random)
                   ELSE Inf ]

\* ------------------------------------------------------------- SpecScan
\* Zero lists as the loader builds them: <<line number, value>> pairs for a
\* subset of the lines 1..MaxScanZeros, in line order.
ScanGammas == (0 - 1) .. MaxGamma

RECURSIVE ZeroListsFrom(_)
ZeroListsFrom(n) ==
    IF n = 0 THEN { << >> }
    ELSE LET shorter == ZeroListsFrom(n - 1)
         IN  shorter \cup { Append(s, <<n, g>>) : s \in shorter, g \in ScanGammas }

ScanZeroLists == ZeroListsFrom(MaxScanZeros)

\* The Monte Carlo drivers before they are called.
MCIdle ==
    /\ mcKind = "montecarlo"
    /\ mcLevel = 1
    /\ mcFutures = << >>
    /\ mcYielded = << >>
    /\ mcResults = << >>
    /\ mcStored = << >>
    /\ mcBroken = FALSE
    /\ mcPc = "idle"

\* The worker pool before it is used.
PoolIdle ==
    /\ poolZeros = << >>
    /\ poolTasks = << >>
    /\ poolState = << >>
    /\ poolOut = << >>
    /\ poolYield = 1
    /\ poolFinished = << >>
    /\ all_results = << >>
    /\ poolPc = "idle"

\* No script is running.
MainIdle ==
    /\ script = "alpha"
    /\ force_reload = FALSE
    /\ fileState = "missing"
    /\ fileLines = <<>>
    /\ cache = [kind |-> "absent", data |-> <<>>]
    /\ run = 1
    /\ shutdown_requested = FALSE
    /\ pc = "idle"
    /\ line_num = 0
    /\ loaded = <<>>
    /\ all_zeros = <<>>
    /\ batch_start = 0
    /\ batch_num = 1
    /\ session_results = <<>>
    /\ best_overall = None
    /\ reportCalls = 0
    /\ outcome = "running"
    /\ finallyRuns = 0
    /\ kiRaised = << >>
    /\ pool_exception = "None"
    /\ batches = << >>
    /\ report = None
    /\ returned = << >>

ScanIdle ==
    /\ scanZeros = << >>
    /\ scanHunter = "alpha"
    /\ scanConst = 1
    /\ scanTol = Rat(5, 2)
    /\ scanRes = << >>
    /\ scanStats = None
    /\ scanPc = "idle"

ScanInit ==
    /\ scanZeros \in ScanZeroLists
    /\ scanHunter = "alpha"
    /\ scanConst = 1
    /\ scanTol = Rat(5, 2)
    /\ scanRes = << >>
    /\ scanStats = None
    /\ scanPc = "idle"

\* One (constant, tolerance) cell of find_multi_tolerance_resonances.
ScanFind ==
    /\ scanPc = "idle"
    /\ \E h \in Hunters, c \in ScanConsts :
       \E t \in SeqRange(TOLERANCE_LEVELS(h)) :
        /\ scanHunter' = h
        /\ scanConst' = c
        /\ scanTol' = t
        /\ scanRes' =
             IF h = "scanner"
             THEN find_resonances_for_constant("fine", c, scanZeros, TOLERANCE_LEVELS(h))[2][t]
             ELSE find_multi_tolerance_resonances(h, scanZeros, [fine |-> c]).fine[t]
    /\ scanPc' = "found"
    /\ UNCHANGED <<scanZeros, scanStats>>
    /\ UNCHANGED <<poolVars, mcVars, mainVars>>

\* enhanced_statistical_analysis(zeros, resonances, constant_value, tolerance);
\* scanStats is what the call returned, or Raised(..) when it raised.
ScanAnalyse ==
    /\ scanPc = "found"
    /\ scanStats' = enhanced_statistical_analysis(scanHunter, scanZeros, scanRes,
                                                  scanConst, scanTol)
    /\ scanPc' = "analysed"
    /\ UNCHANGED <<scanZeros, scanHunter, scanConst, scanTol, scanRes>>
    /\ UNCHANGED <<poolVars, mcVars, mainVars>>

ScanNext == ScanFind \/ ScanAnalyse

\* ------------------------------------------------------------- SpecPool
\* scanner_z.find_multi_tolerance_resonances: one task per constant, run by a
\* pool of worker processes, gathered with executor.map.

\* Dictionaries keep insertion order: a dictionary of constants is a sequence
\* of <<name, value>> pairs.
FUNDAMENTAL_FORCES == << <<"eletromagnetica", 3>>, <<"forte", 4>>, <<"gravitacional", 1>> >>
CONTROL_CONSTANTS == << <<"eletromagnetica", 3>>, <<"random_1", 7>>, <<"golden_ratio", 4>> >>

\* FORCE_TOLERANCES: the tolerance list of each fundamental constant.
FORCE_TOLERANCES ==
    [ eletromagnetica |-> << Rat(5, 2), Rat(3, 2), Rat(1, 2) >>,
      forte           |-> << Rat(7, 2), Rat(3, 2) >>,
      gravitacional   |-> << Rat(3, 2), Rat(1, 2), Rat(1, 4) >> ]

\* FORCE_TOLERANCES.get(name, TOLERANCE_LEVELS)
tolerances_default(name) == TOLERANCE_LEVELS("scanner")

tolerances_for(name) ==
    IF name \in DOMAIN FORCE_TOLERANCES THEN FORCE_TOLERANCES[name]
    ELSE TOLERANCE_LEVELS("scanner")

\* tasks = [(name, value, zeros, FORCE_TOLERANCES.get(name, TOLERANCE_LEVELS)) ...]
make_tasks(zeros, constants_dict) ==
    [ k \in DOMAIN constants_dict |->
        << constants_dict[k][1], constants_dict[k][2], zeros,
           tolerances_for(constants_dict[k][1]) >> ]

PoolInit ==
    /\ poolZeros \in ZeroListsFrom(MaxPoolZeros)
    /\ poolTasks = << >>
    /\ poolState = << >>
    /\ poolOut = << >>
    /\ poolYield = 1
    /\ poolFinished = << >>
    /\ all_results = << >>
    /\ poolPc = "idle"

\* Entering the with-block: all_results = {} and the task list is built.
PoolEnter ==
    /\ poolPc = "idle"
    /\ \E constants_dict \in {FUNDAMENTAL_FORCES, CONTROL_CONSTANTS} :
          poolTasks' = make_tasks(poolZeros, constants_dict)
    /\ poolState' = << >>
    /\ poolOut' = << >>
    /\ poolYield' = 1
    /\ poolFinished' = << >>
    /\ all_results' = << >>
    /\ poolPc' = "submitting"
    /\ UNCHANGED poolZeros
    /\ UNCHANGED <<scanVars, mcVars, mainVars>>

\* executor.map submits the tasks one by one, in order (poolState holds the
\* tasks submitted so far); the workers run meanwhile.  With the last task
\* submitted, map returns the iterator the for loop reads.
PoolSubmit ==
    /\ poolPc = "submitting"
    /\ Len(poolState) < Len(poolTasks)
    /\ poolState' = Append(poolState, "queued")
    /\ poolOut' = Append(poolOut, << >>)
    /\ poolPc' = IF Len(poolState) + 1 = Len(poolTasks) THEN "mapping" ELSE poolPc
    /\ UNCHANGED <<poolZeros, poolTasks, poolYield, poolFinished, all_results>>
    /\ UNCHANGED <<scanVars, mcVars, mainVars>>

\* A free worker process takes the oldest queued task.
WorkerStart(k) ==
    /\ poolPc \in {"submitting", "mapping"}
    /\ poolState[k] = "queued"
    /\ \A j \in 1 .. (k - 1) : poolState[j] # "queued"
    /\ Cardinality({ j \in DOMAIN poolState : poolState[j] = "running" }) < MaxWorkers
    /\ poolState' = [poolState EXCEPT ![k] = "running"]
    /\ UNCHANGED <<poolZeros, poolTasks, poolOut, poolYield, poolFinished, all_results, poolPc>>
    /\ UNCHANGED <<scanVars, mcVars, mainVars>>

\* A worker returns from find_resonances_for_constant(task): it has read only
\* its own pickled copy of the task and writes only its own result.
WorkerFinish(k) ==
    /\ poolPc \in {"submitting", "mapping"}
    /\ poolState[k] = "running"
    /\ poolState' = [poolState EXCEPT ![k] = "done"]
    /\ poolOut' = [poolOut EXCEPT ![k] =
                     find_resonances_for_constant(poolTasks[k][1], poolTasks[k][2],
                                                  poolTasks[k][3], poolTasks[k][4])]
    /\ poolFinished' = Append(poolFinished, k)
    /\ UNCHANGED <<poolZeros, poolTasks, poolYield, all_results, poolPc>>
    /\ UNCHANGED <<scanVars, mcVars, mainVars>>

\* One round of  "for const_name, results in executor.map(...)":
\* map yields the results in task order, waiting for the next one;
\* all_results[const_name] = results.
MapYield ==
    /\ poolPc = "mapping"
    /\ poolYield <= Len(poolTasks)
    /\ poolState[poolYield] = "done"
    /\ LET const_name == poolOut[poolYield][1]
           results == poolOut[poolYield][2]
       IN  all_results' = [ n \in DOMAIN all_results \cup {const_name} |->
                              IF n = const_name THEN results ELSE all_results[n] ]
    /\ poolYield' = poolYield + 1
    /\ UNCHANGED <<poolZeros, poolTasks, poolState, poolOut, poolFinished, poolPc>>
    /\ UNCHANGED <<scanVars, mcVars, mainVars>>

\* The iterator is exhausted: the pool shuts down and all_results is returned.
PoolReturn ==
    /\ poolPc = "mapping"
    /\ poolYield > Len(poolTasks)
    /\ poolPc' = "returned"
    /\ UNCHANGED <<poolZeros, poolTasks, poolState, poolOut, poolYield, poolFinished,
                   all_results>>
    /\ UNCHANGED <<scanVars, mcVars, mainVars>>

PoolNext ==
    \/ PoolEnter
    \/ PoolSubmit
    \/ \E k \in DOMAIN poolState : WorkerStart(k)
    \/ \E k \in DOMAIN poolState : WorkerFinish(k)
    \/ MapYield
    \/ PoolReturn

InitPool == PoolInit /\ ScanIdle /\ MCIdle /\ MainIdle

SpecPool == InitPool /\ [][PoolNext]_vars

InitScan == ScanInit /\ PoolIdle /\ MCIdle /\ MainIdle

SpecScan == InitScan /\ [][ScanNext]_vars

\* ------------------------------------------------------------- SpecMC
\* montecarlo.run_monte_carlo_parallel and validacao.run_perturbation_analysis:
\* every simulation is submitted to a process pool and the results are
\* gathered with as_completed.

\* self.perturbation_levels (four levels in validacao.py, two here, in 1/1000).
perturbation_levels == << 1, 10 >>

\* montecarlo.py makes one pass; validacao.py one pass per perturbation level.
mc_levels(kind) == IF kind = "montecarlo" THEN << 0 >> ELSE perturbation_levels

\* executor.submit(..., i): the future of simulation i joins the list.
submit(futures, i) ==
    Append(futures, [simulation_id |-> i, state |-> "queued", exception |-> "None"])

\* The value a worker returns: simulate_single_run(simulation_id) or
\* run_single_perturbation_test(perturbation_level, simulation_id).
simulation_result(kind, level, simulation_id) ==
    IF kind = "montecarlo"
    THEN [simulation_id |-> simulation_id]
    ELSE [simulation_id |-> simulation_id, perturbation_level |-> level]

\* What future.exception() can be: None when the call returned; an exception
\* the simulation raised; the KeyboardInterrupt of a SIGINT received by the
\* worker inside the call (the workers keep the default handler);
\* BrokenProcessPool, which the executor sets on every unfinished future when
\* a worker process dies.
WorkerExceptions == {"Exception", "KeyboardInterrupt"}
FutureExceptions == {"None", "BrokenProcessPool"} \cup WorkerExceptions

\* issubclass(e, Exception): KeyboardInterrupt derives from BaseException only.
is_Exception(e) == e \in {"Exception", "BrokenProcessPool"}

\* The try statement in the collecting loop:
\*     try: result = future.result(); results.append(result)
\*     except Exception as e: print(...)
\* future.result() re-raises the future's exception; an exception that is
\* not an Exception passes the except clause.  Gives the result list
\* afterwards and the exception that leaves the statement, if any.
collect_even_if_raised(results, kind, level, future) ==
    [results |-> Append(results, simulation_result(kind, level, future.simulation_id)),
     raises |-> "None"]

collect(results, kind, level, future) ==
    IF future.exception = "None"
    THEN [results |-> Append(results, simulation_result(kind, level, future.simulation_id)),
          raises |-> "None"]
    ELSE IF is_Exception(future.exception)
    THEN [results |-> results, raises |-> "None"]
    ELSE [results |-> results, raises |-> future.exception]

MCInit ==
    /\ mcKind \in {"montecarlo", "perturbation"}
    /\ mcLevel = 1
    /\ mcFutures = << >>
    /\ mcYielded = << >>
    /\ mcResults = << >>
    /\ mcStored = << >>
    /\ mcBroken = FALSE
    /\ mcPc = "enter"

\* Entering the with-block (of the current level): a new executor, not
\* broken; level_results = [] in validacao.py; no future is submitted yet.
MCEnter ==
    /\ mcPc = "enter"
    /\ mcFutures' = << >>
    /\ mcYielded' = << >>
    /\ mcResults' = IF mcKind = "montecarlo" THEN mcResults ELSE << >>
    /\ mcBroken' = FALSE
    /\ mcPc' = "submit"
    /\ UNCHANGED <<mcKind, mcLevel, mcStored>>
    /\ UNCHANGED <<scanVars, poolVars, mainVars>>

\* One turn of the list comprehension: executor.submit(..., i) for the next i
\* of range(self.n_simulations); the workers run meanwhile.  as_completed is
\* entered when the list is complete.  executor.submit raises
\* BrokenProcessPool when the executor is broken: the comprehension is outside
\* the try statement, so the exception leaves the with-block, whose exit
\* shuts the pool down, and then the call.
MCSubmit ==
    /\ mcPc = "submit"
    /\ Len(mcFutures) < n_simulations
    /\ IF mcBroken
       THEN /\ mcPc' = "exiting"
            /\ UNCHANGED mcFutures
       ELSE /\ mcFutures' = submit(mcFutures, Len(mcFutures))
            /\ mcPc' = IF Len(mcFutures) + 1 = n_simulations THEN "collect" ELSE mcPc
    /\ UNCHANGED <<mcKind, mcLevel, mcYielded, mcResults, mcStored, mcBroken>>
    /\ UNCHANGED <<scanVars, poolVars, mainVars>>

\* The positions at which the worker processes of the pool are alive: from
\* the first submit to the end of the with-block's exit, which waits for them.
MCPoolPcs == {"submit", "collect", "exiting"}

\* A free worker process takes the oldest queued simulation.
MCWorkerStart(k) ==
    /\ mcPc \in MCPoolPcs
    /\ mcFutures[k].state = "queued"
    /\ \A j \in 1 .. (k - 1) : mcFutures[j].state # "queued"
    /\ Cardinality({ j \in DOMAIN mcFutures : mcFutures[j].state = "running" }) < MaxWorkers
    /\ mcFutures' = [mcFutures EXCEPT ![k].state = "running"]
    /\ UNCHANGED <<mcKind, mcLevel, mcYielded, mcResults, mcStored, mcBroken, mcPc>>
    /\ UNCHANGED <<scanVars, poolVars, mainVars>>

\* The worker's call returns or raises; the worker sends the value or the
\* exception back (concurrent.futures catches BaseException around the call).
MCWorkerFinish(k) ==
    /\ mcPc \in MCPoolPcs
    /\ mcFutures[k].state = "running"
    /\ \E e \in {"None"} \cup WorkerExceptions :
          mcFutures' = [mcFutures EXCEPT ![k].state = "finished", ![k].exception = e]
    /\ UNCHANGED <<mcKind, mcLevel, mcYielded, mcResults, mcStored, mcBroken, mcPc>>
    /\ UNCHANGED <<scanVars, poolVars, mainVars>>

\* A worker process of the pool dies (killed, out of memory), whether it is
\* running a simulation or idle; the processes exist from the first submit
\* on.  The executor becomes broken, which is state of the executor and not
\* of the futures, and sets BrokenProcessPool on every future that has not
\* finished; the other workers are terminated.
MCWorkerDies ==
    /\ mcPc \in MCPoolPcs
    /\ Len(mcFutures) > 0
    /\ ~mcBroken
    /\ mcBroken' = TRUE
    /\ mcFutures' = [j \in DOMAIN mcFutures |->
                        IF mcFutures[j].state = "finished" THEN mcFutures[j]
                        ELSE [mcFutures[j] EXCEPT !.state = "finished",
                                                  !.exception = "BrokenProcessPool"]]
    /\ UNCHANGED <<mcKind, mcLevel, mcYielded, mcResults, mcStored, mcPc>>
    /\ UNCHANGED <<scanVars, poolVars, mainVars>>

\* One round of  "for future in as_completed(futures)": any finished future
\* not yet yielded.  What the try statement does not catch leaves the loop
\* and enters the exit of the with-block: the futures not yet yielded are
\* never collected and, in validacao.py, the level is not stored and no
\* further level is run.
MCCollect(k) ==
    /\ mcPc = "collect"
    /\ mcFutures[k].state = "finished"
    /\ k \notin SeqRange(mcYielded)
    /\ mcYielded' = Append(mcYielded, k)
    /\ LET collected == collect(mcResults, mcKind, mc_levels(mcKind)[mcLevel], mcFutures[k])
       IN  /\ mcResults' = collected.results
           /\ mcPc' = IF collected.raises # "None" THEN "exiting" ELSE mcPc
    /\ UNCHANGED <<mcKind, mcLevel, mcFutures, mcStored, mcBroken>>
    /\ UNCHANGED <<scanVars, poolVars, mainVars>>

\* The exit of the with-block with an exception pending:
\* ProcessPoolExecutor.__exit__ is shutdown(wait=True), which cancels nothing
\* and waits for the workers, so the simulations still queued or running are
\* run to the end first; then the exception leaves the call.
MCExit ==
    /\ mcPc = "exiting"
    /\ \A k \in DOMAIN mcFutures : mcFutures[k].state = "finished"
    /\ mcPc' = "raised"
    /\ UNCHANGED <<mcKind, mcLevel, mcFutures, mcYielded, mcResults, mcStored, mcBroken>>
    /\ UNCHANGED <<scanVars, poolVars, mainVars>>

\* as_completed is exhausted and the pool shuts down.  validacao.py stores
\* level_results under the level and goes on to the next level.
MCEndLevel ==
    /\ mcPc = "collect"
    /\ Len(mcYielded) = Len(mcFutures)
    /\ mcStored' = IF mcKind = "montecarlo" THEN mcStored
                   ELSE Append(mcStored, << mc_levels(mcKind)[mcLevel], mcResults >>)
    /\ IF mcLevel < Len(mc_levels(mcKind))
       THEN mcLevel' = mcLevel + 1 /\ mcPc' = "enter"
       ELSE mcLevel' = mcLevel /\ mcPc' = "returned"
    /\ UNCHANGED <<mcKind, mcFutures, mcYielded, mcResults, mcBroken>>
    /\ UNCHANGED <<scanVars, poolVars, mainVars>>

MCNext ==
    \/ MCEnter
    \/ MCSubmit
    \/ \E k \in DOMAIN mcFutures : MCWorkerStart(k)
    \/ \E k \in DOMAIN mcFutures : MCWorkerFinish(k)
    \/ MCWorkerDies
    \/ \E k \in DOMAIN mcFutures : MCCollect(k)
    \/ MCExit
    \/ MCEndLevel

InitMC == MCInit /\ ScanIdle /\ PoolIdle /\ MainIdle

SpecMC == InitMC /\ [][MCNext]_vars

\* ------------------------------------------------------------- the zeros file
\* Longest ZEROS_FILE, in lines.
MaxLines == 3
\* Runs of the script in a row over the same files.
MaxRuns == 2

\* INCREMENT, the batch size (1000; scanner_z 10000).
INCREMENT == 2
\* MINIMUM_FOR_STATS (1000): shorter lists get the basic analysis only.
MINIMUM_FOR_STATS == 2
\* FRESH_START_ZEROS: 5000 in the sequential hunters, 0 (= all) in scanner_z.
FRESH_START_ZEROS(hunter) == IF hunter = "scanner" THEN 0 ELSE 2
\* scanner_z.load_enhanced_cache: expected_zeros = file_size // 20.
BYTES_PER_ZERO == 2

\* A line is the sequence of its characters without the newline.
Whitespace == {" "}
Digits == << "0", "1", "2", "3", "4", "5", "6", "7", "8", "9" >>
IsDigit(ch) == \E d \in DOMAIN Digits : Digits[d] = ch
DigitValue(ch) == (CHOOSE d \in DOMAIN Digits : Digits[d] = ch) - 1

\* line.strip()
RECURSIVE lstrip(_)
lstrip(s) == IF s # << >> /\ Head(s) \in Whitespace THEN lstrip(Tail(s)) ELSE s

RECURSIVE rstrip(_)
rstrip(s) ==
    IF s # << >> /\ s[Len(s)] \in Whitespace
    THEN rstrip(SubSeq(s, 1, Len(s) - 1))
    ELSE s

strip(s) == rstrip(lstrip(s))

\* float(line) on the decimal notation  [sign] digits [. digits] | [sign] . digits
\* (exponents, "inf", "nan" and digit-group underscores are outside the
\* alphabet of the lines considered).  float_raises is the ValueError case.
unsigned_part(s) == IF s # << >> /\ Head(s) \in {"+", "-"} THEN Tail(s) ELSE s

float_raises(s) ==
    LET u == unsigned_part(s)
        dots == { k \in DOMAIN u : u[k] = "." }
        digs == { k \in DOMAIN u : IsDigit(u[k]) }
    IN  ~ (dots \cup digs = DOMAIN u /\ Cardinality(dots) <= 1 /\ digs # {})

RECURSIVE digits_value(_, _)
digits_value(s, acc) ==
    IF s = << >> THEN acc ELSE digits_value(Tail(s), 10 * acc + DigitValue(Head(s)))

\* The value, in tenths (the lines considered carry at most one decimal).
float(s) ==
    LET u == unsigned_part(s)
        dots == { k \in DOMAIN u : u[k] = "." }
        p == IF dots = {} THEN Len(u) + 1 ELSE CHOOSE k \in dots : TRUE
        whole == digits_value(SubSeq(u, 1, p - 1), 0)
        tenth == IF p < Len(u) THEN DigitValue(u[p + 1]) ELSE 0
        magnitude == 10 * whole + tenth
    IN  IF s # << >> /\ Head(s) = "-" THEN 0 - magnitude ELSE magnitude

\* The lines a file is made of: blank, not a number, and numbers.
FileLineSet ==
    { << " " >>, << "1", "x" >>, << "1", ".", "4" >>, << ".", "5" >> }

RECURSIVE FilesUpTo(_)
FilesUpTo(n) ==
    IF n = 0 THEN { << >> }
    ELSE LET shorter == FilesUpTo(n - 1)
         IN  shorter \cup { Append(f, l) : f \in { g \in shorter : Len(g) = n - 1 },
                                           l \in FileLineSet }

\* A file that exists but cannot be opened or decoded: only its size matters.
UnreadableFiles ==
    { [ k \in 1 .. n |-> << "1", ".", "4" >> ] : n \in 0 .. MaxLines }

\* os.path.getsize(ZEROS_FILE): every line with its newline.
RECURSIVE getsize(_)
getsize(lines) == IF lines = << >> THEN 0 ELSE Len(Head(lines)) + 1 + getsize(Tail(lines))

\* One turn of the loop of load_zeros_from_file on line number n:
\*     line = line.strip()
\*     if line:
\*         try: zeros.append((line_num, float(line)))
\*         except ValueError: continue
load_line_by_position(acc, n, line) ==
    LET stripped == strip(line)
    IN  IF stripped = << >> THEN acc
        ELSE IF float_raises(stripped) THEN acc
        ELSE Append(acc, << Len(acc) + 1, float(stripped) >>)

load_line_reset_on_invalid(acc, n, line) ==
    LET stripped == strip(line)
    IN  IF stripped = << >> THEN acc
        ELSE IF float_raises(stripped) THEN << >>
        ELSE Append(acc, << n, float(stripped) >>)

load_line(acc, n, line) ==
    LET stripped == strip(line)
    IN  IF stripped = << >> THEN acc
        ELSE IF float_raises(stripped) THEN acc
        ELSE Append(acc, << n, float(stripped) >>)

\* zeros[:FRESH_START_ZEROS] if FRESH_START_ZEROS > 0 else zeros
fresh_start(hunter, zs) ==
    IF FRESH_START_ZEROS(hunter) > 0
    THEN SubSeq(zs, 1, Min2(Len(zs), FRESH_START_ZEROS(hunter)))
    ELSE zs

CacheAbsent == [kind |-> "absent", data |-> << >>]
\* CACHE_FILE holds bytes pickle.load raises on.
CacheCorrupt == [kind |-> "corrupt", data |-> << >>]
\* CACHE_FILE holds a pickled list.
CacheList(zs) == [kind |-> "list", data |-> zs]

\* ------------------------------------------------------------- batch analysis
\* FINE_STRUCTURE (alpha) and 1e34 * PLANCK_CONSTANT (planck), in tenths.
FINE_STRUCTURE == 7
PLANCK_34X == 7
main_constant(hunter) == IF hunter = "alpha" THEN FINE_STRUCTURE ELSE PLANCK_34X

\* DEFAULT_TOLERANCE: 1e-5, the second level (alpha); 1e-8, the third (planck).
DEFAULT_TOLERANCE(hunter) ==
    IF hunter = "planck" THEN TOLERANCE_LEVELS(hunter)[3] ELSE TOLERANCE_LEVELS(hunter)[2]

\* CONTROL_CONSTANTS of the sequential hunters (eight and eleven entries in
\* the scripts, the main constant among them).
CONTROL_CONSTANTS_OF(hunter) ==
    IF hunter = "alpha"
    THEN ("fine_structure" :> FINE_STRUCTURE) @@ ("random_1" :> 6)
    ELSE ("planck_34x" :> PLANCK_34X) @@ ("random_1" :> 6)

\* The key the best resonance is chosen by: x[2] (the distance) in alpha and
\* scanner_z, x[4] (the relative error) in the Planck family.
quality(hunter, x) == IF hunter \in RelativeHunters THEN x[5] ELSE RInt(x[3])

\* min(resonances, key=...): the first entry of least key.
min_by_quality(hunter, resonances) ==
    LET k == CHOOSE k \in DOMAIN resonances :
                /\ \A j \in DOMAIN resonances :
                       ~RLess(quality(hunter, resonances[j]), quality(hunter, resonances[k]))
                /\ \A j \in 1 .. (k - 1) :
                       RLess(quality(hunter, resonances[k]), quality(hunter, resonances[j]))
    IN  resonances[k]

\* comparative_constant_analysis(zeros, DEFAULT_TOLERANCE)
comparative_constant_analysis(hunter, zs) ==
    [ const_name \in DOMAIN CONTROL_CONSTANTS_OF(hunter) |->
        LET const_value == CONTROL_CONSTANTS_OF(hunter)[const_name]
            resonances == resonances_for(hunter, zs, const_value, DEFAULT_TOLERANCE(hunter))
        IN  [ constant_value |-> const_value,
              resonance_count |-> Len(resonances),
              stats |-> enhanced_statistical_analysis(hunter, zs, resonances, const_value,
                                                      DEFAULT_TOLERANCE(hunter)) ] ]

\* analyze_batch_enhanced(zeros, batch_num) of the sequential hunters: the
\* tolerance summary, the comparison of constants and the best resonance.
\* Below MINIMUM_FOR_STATS the summary entries carry no 'significance'.
analyze_batch_enhanced(hunter, zs) ==
    LET c == main_constant(hunter)
        levels == TOLERANCE_LEVELS(hunter)
        res(t) == resonances_for(hunter, zs, c, t)
        best_quality(t) ==
            IF Len(res(t)) > 0 THEN quality(hunter, min_by_quality(hunter, res(t))) ELSE None
    IN  IF Len(zs) < MINIMUM_FOR_STATS
        THEN [ tolerance_summary |->
                 [ t \in SeqRange(SubSeq(levels, 1, Min2(3, Len(levels)))) |->
                     [ count |-> Len(res(t)), best_quality |-> best_quality(t),
                       resonances |-> res(t), stats |-> None ] ],
               comparative |-> << >>,
               best |-> None ]
        ELSE LET stats(t) == enhanced_statistical_analysis(hunter, zs, res(t), c, t)
                 summary ==
                   [ t \in SeqRange(levels) |->
                       IF Len(res(t)) > 0
                       THEN [ count |-> Len(res(t)), best_quality |-> best_quality(t),
                              significance |-> IF stats(t) # None
                                               THEN stats(t).significance_factor
                                               ELSE RInt(0),
                              resonances |-> res(t), stats |-> stats(t) ]
                       ELSE [ count |-> 0, best_quality |-> None, significance |-> RInt(0),
                              resonances |-> << >>, stats |-> None ] ]
                 default == summary[DEFAULT_TOLERANCE(hunter)]
             IN  [ tolerance_summary |-> summary,
                   comparative |-> comparative_constant_analysis(hunter, zs),
                   best |-> IF default.resonances # << >>
                            THEN min_by_quality(hunter, default.resonances)
                            ELSE None ]

\* Whether analyze_batch_enhanced raises: with MINIMUM_FOR_STATS zeros or more
\* it calls enhanced_statistical_analysis for every tolerance level that has
\* resonances and, through comparative_constant_analysis, for every control
\* constant at DEFAULT_TOLERANCE.
analysis_raises(hunter, zs) ==
    /\ hunter # "scanner"
    /\ Len(zs) >= MINIMUM_FOR_STATS
    /\ \/ \E t \in SeqRange(TOLERANCE_LEVELS(hunter)) :
              "raises" \in DOMAIN enhanced_statistical_analysis(hunter, zs,
                  resonances_for(hunter, zs, main_constant(hunter), t),
                  main_constant(hunter), t)
       \/ \E n \in DOMAIN CONTROL_CONSTANTS_OF(hunter) :
              "raises" \in DOMAIN enhanced_statistical_analysis(hunter, zs,
                  resonances_for(hunter, zs, CONTROL_CONSTANTS_OF(hunter)[n],
                                 DEFAULT_TOLERANCE(hunter)),
                  CONTROL_CONSTANTS_OF(hunter)[n], DEFAULT_TOLERANCE(hunter))

\* scanner_z.analyze_batch_with_significance_detection: best_resonances, the
\* best resonance of each constant over its first three tolerances.
RECURSIVE best_over_tolerances(_, _, _, _)
best_over_tolerances(zs, const_value, tolerances, best) ==
    IF tolerances = << >> THEN best
    ELSE LET resonances == resonances_for("scanner", zs, const_value, Head(tolerances))
             current_best == min_by_quality("scanner", resonances)
         IN  best_over_tolerances(zs, const_value, Tail(tolerances),
               IF resonances # << >> /\ (best = None \/ current_best[3] < best[3])
               THEN current_best ELSE best)

best_resonances(zs) ==
    LET found(k) == best_over_tolerances(zs, FUNDAMENTAL_FORCES[k][2],
                        SubSeq(tolerances_for(FUNDAMENTAL_FORCES[k][1]), 1,
                               Min2(3, Len(tolerances_for(FUNDAMENTAL_FORCES[k][1])))),
                        None)
        position(name) == CHOOSE k \in DOMAIN FUNDAMENTAL_FORCES :
                              FUNDAMENTAL_FORCES[k][1] = name
    IN  [ name \in { FUNDAMENTAL_FORCES[k][1] :
                       k \in { j \in DOMAIN FUNDAMENTAL_FORCES : found(j) # None } } |->
            found(position(name)) ]

\* The update with <= for <: a later batch of equal quality takes the place.
update_best_on_ties(hunter, best, batch_best) ==
    IF hunter = "scanner"
    THEN [ name \in DOMAIN best \cup DOMAIN batch_best |->
             IF name \notin DOMAIN batch_best THEN best[name]
             ELSE IF name \notin DOMAIN best \/ batch_best[name][3] <= best[name][3]
             THEN batch_best[name]
             ELSE best[name] ]
    ELSE IF batch_best # None
            /\ (best = None \/ ~RLess(quality(hunter, best), quality(hunter, batch_best)))
         THEN batch_best
         ELSE best

\* The update of best_overall after a batch.
\*   alpha:   if batch_best and (not best_overall or batch_best[2] < best_overall[2])
\*   planck:  the same on [4]
\*   scanner: per constant, if const_name not in best_overall or quality < ...[2]
update_best(hunter, best, batch_best) ==
    IF hunter = "scanner"
    THEN [ name \in DOMAIN best \cup DOMAIN batch_best |->
             IF name \notin DOMAIN batch_best THEN best[name]
             ELSE IF name \notin DOMAIN best \/ batch_best[name][3] < best[name][3]
             THEN batch_best[name]
             ELSE best[name] ]
    ELSE IF batch_best # None
            /\ (best = None \/ RLess(quality(hunter, batch_best), quality(hunter, best)))
         THEN batch_best
         ELSE best

\* Whether generate_comprehensive_report raises.  The sequential hunters
\* analyse the whole list again and read  data['significance']  of every
\* summary entry (KeyError below MINIMUM_FOR_STATS); alpha also reads
\* results['stats']['basic_stats'] of every control constant (TypeError where
\* a control constant has no resonance).  scanner_z only writes what it is given.
report_raises(hunter, zs) ==
    IF hunter = "scanner" THEN FALSE
    ELSE IF analysis_raises(hunter, zs) THEN TRUE
    ELSE LET final == analyze_batch_enhanced(hunter, zs)
         IN  \/ \E t \in DOMAIN final.tolerance_summary :
                    "significance" \notin DOMAIN final.tolerance_summary[t]
             \/ /\ hunter = "alpha"
                /\ \E n \in DOMAIN final.comparative : final.comparative[n].stats = None

\* What the report says and what producing it scans:
\*     Lote Final: #{final_batch}     Zeros Analisados: {len(zeros):,}
\* At the call nothing has been scanned and nothing written.  The sequential
\* hunters then run analyze_batch_enhanced(zeros, final_batch) on the list they
\* are given before they write; scanner_z scans nothing.
report_header(zs, final_batch) ==
    [ final_batch |-> final_batch,
      zeros_analysed |-> Len(zs),
      scanned |-> << >>,
      complete |-> FALSE ]

\* ------------------------------------------------------------- one run (Spec)
\* sys.argv[1] == '--force-reload': an option of scanner_z only.
command_lines(hunter) == IF hunter = "scanner" THEN BOOLEAN ELSE {FALSE}

\* The script starts with some ZEROS_FILE and some CACHE_FILE on disk.
MainInit ==
    /\ script \in Hunters
    /\ force_reload \in command_lines(script)
    /\ fileState \in {"ok", "unreadable", "missing"}
    /\ fileLines \in CASE fileState = "ok" -> FilesUpTo(MaxLines)
                       [] fileState = "unreadable" -> UnreadableFiles
                       [] OTHER -> { << >> }
    /\ cache \in {CacheAbsent, CacheCorrupt, CacheList(<< >>)}
    /\ run = 1
    /\ shutdown_requested = FALSE
    /\ pc = "start"
    /\ line_num = 0
    /\ loaded = << >>
    /\ all_zeros = << >>
    /\ batch_start = 0
    /\ batch_num = 1
    /\ session_results = << >>
    /\ best_overall = None
    /\ reportCalls = 0
    /\ outcome = "running"
    /\ finallyRuns = 0
    /\ kiRaised = << >>
    /\ pool_exception = "None"
    /\ batches = << >>
    /\ report = None
    /\ returned = << >>

otherVars == <<scanVars, poolVars, mcVars>>
histVars == <<batches, report, returned>>

\* The signals the scripts install signal_handler for.
Signals == {"SIGINT", "SIGTERM"}

\* Whether the main thread at position p is past
\* signal.signal(signum, signal_handler).
handler_installed(signum, p) ==
    /\ p \notin {"idle", "start", "done"}
    /\ signum = "SIGTERM" => p # "sigint_set"

\* The process of the script receives SIGINT or SIGTERM once the handler is
\* installed for it: signal_handler(signum, frame) sets the flag and returns,
\* and the main thread resumes where it was.  The worker processes of
\* scanner_z's pools are other processes: see WorkerSignal.
Signal ==
    /\ \E signum \in Signals : handler_installed(signum, pc)
    /\ ~shutdown_requested
    /\ shutdown_requested' = TRUE
    /\ UNCHANGED <<script, force_reload, fileState, fileLines, cache, run, pc, line_num,
                   loaded, all_zeros, batch_start, batch_num, session_results,
                   best_overall, reportCalls, outcome, finallyRuns, kiRaised,
                   pool_exception, batches, report, returned, otherVars>>

\* The process receives a signal before signal.signal has run for it.  The
\* default action of SIGTERM ends the process; Python's default handler of
\* SIGINT raises KeyboardInterrupt at module level, outside the try block.
\* Either way the script ends there and the finally block does not run.
SignalUnhandled ==
    /\ pc \in {"start", "sigint_set"}
    /\ \E signum \in Signals :
          /\ ~handler_installed(signum, pc)
          /\ outcome' = IF signum = "SIGINT" THEN "propagated" ELSE "killed"
          /\ kiRaised' = IF signum = "SIGINT" THEN Append(kiRaised, pc) ELSE kiRaised
    /\ pc' = "done"
    /\ UNCHANGED <<script, force_reload, fileState, fileLines, cache, run,
                   shutdown_requested, line_num, loaded, all_zeros, batch_start, batch_num,
                   session_results, best_overall, reportCalls, finallyRuns,
                   pool_exception, batches, report, returned, otherVars>>

\* The first lines under  if __name__ == "__main__":
\*     shutdown_requested = False
\*     signal.signal(signal.SIGINT, signal_handler)
InstallSIGINT ==
    /\ pc = "start"
    /\ pc' = "sigint_set"
    /\ UNCHANGED <<script, force_reload, fileState, fileLines, cache, run,
                   shutdown_requested, line_num, loaded, all_zeros, batch_start, batch_num,
                   session_results, best_overall, reportCalls, outcome, finallyRuns,
                   kiRaised, pool_exception, batches, report, returned, otherVars>>

\* signal.signal(signal.SIGTERM, signal_handler); then the try block is
\* entered, in the Planck family main() is called and is at its first print,
\* which comes before its try block.
InstallSIGTERM ==
    /\ pc = "sigint_set"
    /\ pc' = IF script \in RelativeHunters THEN "main" ELSE "try"
    /\ UNCHANGED <<script, force_reload, fileState, fileLines, cache, run,
                   shutdown_requested, line_num, loaded, all_zeros, batch_start, batch_num,
                   session_results, best_overall, reportCalls, outcome, finallyRuns,
                   kiRaised, pool_exception, batches, report, returned, otherVars>>

\* Planck family: main() has printed its first line and enters its try block.
EnterTry ==
    /\ pc = "main"
    /\ pc' = "try"
    /\ UNCHANGED <<script, force_reload, fileState, fileLines, cache, run,
                   shutdown_requested, line_num, loaded, all_zeros, batch_start, batch_num,
                   session_results, best_overall, reportCalls, outcome, finallyRuns,
                   kiRaised, pool_exception, batches, report, returned, otherVars>>

\* Inside the try block: the opening print, the main function is called and
\* prints its banner.
Begin ==
    /\ pc = "try"
    /\ pc' = "load_cache"
    /\ UNCHANGED <<script, force_reload, fileState, fileLines, cache, run,
                   shutdown_requested, line_num, loaded, all_zeros, batch_start, batch_num,
                   session_results, best_overall, reportCalls, outcome, finallyRuns,
                   kiRaised, batches, report, returned, pool_exception, otherVars>>

\* load_enhanced_cache: if os.path.exists(CACHE_FILE)
\* (scanner_z: if not force_reload and os.path.exists(CACHE_FILE))
CacheCheck ==
    /\ pc = "load_cache"
    /\ pc' = IF ~force_reload /\ cache.kind # "absent" THEN "cache_read" ELSE "file_open"
    /\ UNCHANGED <<script, force_reload, fileState, fileLines, cache, run,
                   shutdown_requested, line_num, loaded, all_zeros, batch_start, batch_num,
                   session_results, best_overall, reportCalls, outcome, finallyRuns,
                   kiRaised, batches, report, returned, pool_exception, otherVars>>

\* scanner_z: the cache "looks incomplete":  len(data) < (file_size // 20) * 0.5
cache_incomplete(data, lines) == 2 * Len(data) < getsize(lines) \div BYTES_PER_ZERO

\* What reading the cache leads to: "return" the cached list, go on to "load"
\* the file, or (scanner_z, cache holding no non-empty list) return "empty".
cache_read_result(hunter, c, state, lines) ==
    IF c.kind = "corrupt" THEN "load"
    ELSE IF c.data = << >> THEN (IF hunter = "scanner" THEN "empty" ELSE "load")
    ELSE IF hunter # "scanner" THEN "return"
    ELSE IF state = "missing" THEN "load"
    ELSE IF cache_incomplete(c.data, lines) THEN "load"
    ELSE "return"

\* load_enhanced_cache: data = pickle.load(f) and what follows it.
CacheRead ==
    /\ pc = "cache_read"
    /\ LET r == cache_read_result(script, cache, fileState, fileLines)
       IN  /\ pc' = IF r = "load" THEN "file_open" ELSE "loaded"
           /\ all_zeros' = IF r = "return" THEN cache.data ELSE all_zeros
           /\ returned' = CASE r = "return" ->
                                  Append(returned, [from |-> "cache", zeros |-> cache.data])
                             [] r = "empty" ->
                                  Append(returned, [from |-> "cache", zeros |-> << >>])
                             [] OTHER -> returned
    /\ UNCHANGED <<script, force_reload, fileState, fileLines, cache, run,
                   shutdown_requested, line_num, loaded, batch_start, batch_num,
                   session_results, best_overall, reportCalls, outcome, finallyRuns,
                   kiRaised, batches, report, pool_exception, otherVars>>

\* load_zeros_from_file: zeros = []; open(filename).  A file that cannot be
\* opened or decoded ends in the outer  except Exception: return [].
FileOpen ==
    /\ pc = "file_open"
    /\ loaded' = << >>
    /\ line_num' = 0
    /\ pc' = IF fileState = "ok" THEN "reading" ELSE "read_done"
    /\ UNCHANGED <<script, force_reload, fileState, fileLines, cache, run,
                   shutdown_requested, all_zeros, batch_start, batch_num, session_results,
                   best_overall, reportCalls, outcome, finallyRuns, kiRaised, batches,
                   report, returned, pool_exception, otherVars>>

\* load_zeros_from_file: one turn of  for line_num, line in enumerate(f, start=1).
\* line_num counts the lines the loop body has dealt with.
ReadLine ==
    /\ pc = "reading"
    /\ line_num < Len(fileLines)
    /\ IF shutdown_requested
       THEN /\ pc' = "read_done"
            /\ UNCHANGED <<line_num, loaded>>
       ELSE /\ line_num' = line_num + 1
            /\ loaded' = load_line(loaded, line_num + 1, fileLines[line_num + 1])
            /\ pc' = pc
    /\ UNCHANGED <<script, force_reload, fileState, fileLines, cache, run,
                   shutdown_requested, all_zeros, batch_start, batch_num, session_results,
                   best_overall, reportCalls, outcome, finallyRuns, kiRaised, batches,
                   report, returned, pool_exception, otherVars>>

\* load_zeros_from_file: the file is exhausted; return zeros.
ReadEnd ==
    /\ pc = "reading"
    /\ line_num = Len(fileLines)
    /\ pc' = "read_done"
    /\ UNCHANGED <<script, force_reload, fileState, fileLines, cache, run,
                   shutdown_requested, line_num, loaded, all_zeros, batch_start, batch_num,
                   session_results, best_overall, reportCalls, outcome, finallyRuns,
                   kiRaised, batches, report, returned, pool_exception, otherVars>>

\* load_enhanced_cache after the file was read:
\*     if zeros: save_enhanced_cache(zeros); return zeros[:FRESH_START_ZEROS] ...
\*     return []
\* save_enhanced_cache begins:  if backup and os.path.exists(CACHE_FILE):
\* os.rename(CACHE_FILE, backup_file), which leaves no file under CACHE_FILE.
FileLoaded ==
    /\ pc = "read_done"
    /\ IF loaded # << >>
       THEN /\ cache' = CacheAbsent
            /\ pc' = "save_open"
            /\ UNCHANGED <<all_zeros, returned>>
       ELSE /\ all_zeros' = << >>
            /\ returned' = Append(returned, [from |-> "file", zeros |-> << >>])
            /\ pc' = "loaded"
            /\ UNCHANGED cache
    /\ UNCHANGED <<script, force_reload, fileState, fileLines, run, shutdown_requested,
                   line_num, loaded, batch_start, batch_num, session_results, best_overall,
                   reportCalls, outcome, finallyRuns, kiRaised, batches, report, pool_exception, otherVars>>

\* save_enhanced_cache: open(CACHE_FILE, 'wb').  The file exists and is empty;
\* until the dump is complete pickle.load raises on it.
SaveOpen ==
    /\ pc = "save_open"
    /\ cache' = CacheCorrupt
    /\ pc' = "save_dump"
    /\ UNCHANGED <<script, force_reload, fileState, fileLines, run, shutdown_requested,
                   line_num, loaded, all_zeros, batch_start, batch_num, session_results,
                   best_overall, reportCalls, outcome, finallyRuns, kiRaised, batches,
                   report, returned, pool_exception, otherVars>>

\* save_enhanced_cache: pickle.dump(zeros, f) completes and the file is closed.
SaveDump ==
    /\ pc = "save_dump"
    /\ cache' = CacheList(loaded)
    /\ pc' = "saved"
    /\ UNCHANGED <<script, force_reload, fileState, fileLines, run, shutdown_requested,
                   line_num, loaded, all_zeros, batch_start, batch_num, session_results,
                   best_overall, reportCalls, outcome, finallyRuns, kiRaised, batches,
                   report, returned, pool_exception, otherVars>>

\* save_enhanced_cache prints and returns; load_enhanced_cache returns
\* zeros[:FRESH_START_ZEROS] (all of them in scanner_z).
SaveReturn ==
    /\ pc = "saved"
    /\ all_zeros' = fresh_start(script, loaded)
    /\ returned' = Append(returned, [from |-> "file", zeros |-> all_zeros'])
    /\ pc' = "loaded"
    /\ UNCHANGED <<script, force_reload, fileState, fileLines, cache, run,
                   shutdown_requested, line_num, loaded, batch_start, batch_num,
                   session_results, best_overall, reportCalls, outcome, finallyRuns,
                   kiRaised, batches, report, pool_exception, otherVars>>

\* current_count = len(all_zeros); if current_count == 0: return [], [], None
\* session_results = []; best_overall = None ({} in scanner_z); batch_num = 1
CheckLoaded ==
    /\ pc = "loaded"
    /\ IF Len(all_zeros) = 0
       THEN /\ pc' = "epilogue"
            /\ UNCHANGED <<batch_start, batch_num, session_results, best_overall>>
       ELSE /\ pc' = "loop_head"
            /\ batch_start' = 0
            /\ batch_num' = 1
            /\ session_results' = << >>
            /\ best_overall' = IF script = "scanner" THEN << >> ELSE None
    /\ UNCHANGED <<script, force_reload, fileState, fileLines, cache, run,
                   shutdown_requested, line_num, loaded, all_zeros, reportCalls, outcome,
                   finallyRuns, kiRaised, batches, report, returned, pool_exception, otherVars>>

\* for i in range(0, current_count, INCREMENT): if shutdown_requested: break
loop_continues_ignoring_shutdown(start, current_count, shutdown) == start < current_count

loop_continues(start, current_count, shutdown) == start < current_count /\ ~shutdown

\* Where control goes when the loop has ended: the report.
AfterLoopSkipsReport == "epilogue"

AfterLoop == "report"

\* The head of the batch loop; when it goes on, the batch is cut and announced.
LoopHead ==
    /\ pc = "loop_head"
    /\ pc' = IF loop_continues(batch_start, Len(all_zeros), shutdown_requested)
             THEN "in_batch" ELSE AfterLoop
    /\ UNCHANGED <<script, force_reload, fileState, fileLines, cache, run,
                   shutdown_requested, line_num, loaded, all_zeros, batch_start, batch_num,
                   session_results, best_overall, reportCalls, outcome, finallyRuns,
                   kiRaised, batches, report, returned, pool_exception, otherVars>>

\* batch = all_zeros[batch_start:batch_end]
batch_of_from_start(zs, start) == SubSeq(zs, 1, Min2(start + INCREMENT, Len(zs)))

batch_of(zs, start) == SubSeq(zs, start + 1, Min2(start + INCREMENT, Len(zs)))

\* The batch analysis is called with the slice: analyze_batch_enhanced(batch,
\* batch_num), in scanner_z analyze_batch_with_significance_detection.
CallAnalysis ==
    /\ pc = "in_batch"
    /\ batches' = Append(batches, batch_of(all_zeros, batch_start))
    /\ pc' = "analysing"
    /\ UNCHANGED <<script, force_reload, fileState, fileLines, cache, run,
                   shutdown_requested, line_num, loaded, all_zeros, batch_start, batch_num,
                   session_results, best_overall, reportCalls, outcome, finallyRuns,
                   kiRaised, report, returned, pool_exception, otherVars>>

\* Positions at which the main thread of scanner_z waits for a process pool.
PoolPcs == {"in_pool", "in_control_pool"}

\* How the worker processes of a pool can be started: ProcessPoolExecutor is
\* created without mp_context and no script sets a start method, so the
\* platform's default applies.
StartMethods == {"fork", "spawn", "forkserver"}

\* What a signal received by a pool worker makes of the pool.  signal_handler
\* is installed under  if __name__ == "__main__":  only: a forked worker
\* inherits it and just sets its own copy of the flag; a spawned worker
\* imports the module under another name and keeps the default actions.
\* There SIGINT inside find_resonances_for_constant raises KeyboardInterrupt,
\* which the worker sends back as the task's exception; SIGINT outside a task
\* and SIGTERM end the worker and the executor breaks the pool.
worker_reaction(start_method, signum, in_task) ==
    IF start_method = "fork" THEN "None"
    ELSE IF signum = "SIGINT" /\ in_task THEN "KeyboardInterrupt"
    ELSE "BrokenProcessPool"

\* A worker process of the pool the main thread waits in receives SIGINT or
\* SIGTERM (Ctrl-C goes to every process of the foreground process group).
WorkerSignal ==
    /\ script = "scanner"
    /\ pc \in PoolPcs
    /\ pool_exception = "None"
    /\ \E start_method \in StartMethods, signum \in Signals, in_task \in BOOLEAN :
          pool_exception' = worker_reaction(start_method, signum, in_task)
    /\ UNCHANGED <<script, force_reload, fileState, fileLines, cache, run,
                   shutdown_requested, pc, line_num, loaded, all_zeros, batch_start,
                   batch_num, session_results, best_overall, reportCalls, outcome,
                   finallyRuns, kiRaised, batches, report, returned, otherVars>>

\* Where an exception raised in the main thread at position p lands, and how
\* the top-level try block ends then: both pool calls of a batch are outside
\* any try statement of the main function except the one around
\* comparative_constant_analysis, which catches Exception.
pool_raise_lands(p, exception) ==
    IF exception = "None" THEN "returns"
    ELSE IF p = "in_control_pool" /\ exception = "BrokenProcessPool" THEN "caught_in_batch"
    ELSE IF exception = "KeyboardInterrupt" THEN "interrupted"
    ELSE "exception"

\* scanner_z: find_multi_tolerance_resonances(zeros, FUNDAMENTAL_FORCES) is
\* called: the pool is created, the tasks are handed to executor.map, and the
\* main thread waits for the worker processes; signals are handled meanwhile.
\* What the workers raise surfaces when the wait ends: see LeavePool.
EnterPool ==
    /\ pc = "analysing"
    /\ script = "scanner"
    /\ pc' = "in_pool"
    /\ UNCHANGED <<script, force_reload, fileState, fileLines, cache, run,
                   shutdown_requested, line_num, loaded, all_zeros, batch_start, batch_num,
                   session_results, best_overall, reportCalls, outcome, finallyRuns,
                   kiRaised, pool_exception, batches, report, returned, otherVars>>

\* scanner_z: the wait in the first pool ends.  executor.map yields every
\* result, or re-raises the KeyboardInterrupt a worker raised or the
\* BrokenProcessPool of a dead worker: the call in
\* analyze_batch_with_significance_detection and its call in the batch loop
\* are unguarded, so the batch is abandoned for the top-level handlers.
\* Otherwise the statistics of the priority constants are done and
\* comparative_constant_analysis enters the second pool of the batch,
\* find_multi_tolerance_resonances(zeros, CONTROL_CONSTANTS).
LeavePool ==
    /\ pc = "in_pool"
    /\ LET lands == pool_raise_lands(pc, pool_exception)
       IN  /\ pc' = IF lands = "returns" THEN "in_control_pool" ELSE "handler"
           /\ outcome' = IF lands = "returns" THEN outcome ELSE lands
           /\ kiRaised' = IF lands = "interrupted" THEN Append(kiRaised, pc) ELSE kiRaised
    /\ pool_exception' = "None"
    /\ UNCHANGED <<script, force_reload, fileState, fileLines, cache, run,
                   shutdown_requested, line_num, loaded, all_zeros, batch_start, batch_num,
                   session_results, best_overall, reportCalls, finallyRuns, batches,
                   report, returned, otherVars>>

\* scanner_z: the wait in the pool of the control constants ends.
\*     try: comparative_analysis = comparative_constant_analysis(zeros)
\*     except Exception as e: ...; comparative_analysis = {}
\* A BrokenProcessPool is caught there and the analysis returns as usual; a
\* KeyboardInterrupt re-raised by executor.map passes the except clause and
\* the batch is abandoned for the top-level handler.
ComparativePool ==
    /\ pc = "in_control_pool"
    /\ LET lands == pool_raise_lands(pc, pool_exception)
       IN  /\ pc' = IF lands \in {"returns", "caught_in_batch"} THEN "analysed" ELSE "handler"
           /\ outcome' = IF lands \in {"returns", "caught_in_batch"} THEN outcome ELSE lands
           /\ kiRaised' = IF lands = "interrupted" THEN Append(kiRaised, pc) ELSE kiRaised
    /\ pool_exception' = "None"
    /\ UNCHANGED <<script, force_reload, fileState, fileLines, cache, run,
                   shutdown_requested, line_num, loaded, all_zeros, batch_start, batch_num,
                   session_results, best_overall, reportCalls, finallyRuns, batches,
                   report, returned, otherVars>>

\* The sequential hunters: the batch analysis runs to its end and returns, or
\* raises: what it raises leaves the main function for the top-level
\* except Exception.
AnalyseBatch ==
    /\ script # "scanner"
    /\ pc = "analysing"
    /\ IF analysis_raises(script, batch_of(all_zeros, batch_start))
       THEN /\ outcome' = "exception"
            /\ pc' = "handler"
       ELSE /\ pc' = "analysed"
            /\ UNCHANGED outcome
    /\ UNCHANGED <<script, force_reload, fileState, fileLines, cache, run,
                   shutdown_requested, line_num, loaded, all_zeros, batch_start, batch_num,
                   session_results, best_overall, reportCalls, finallyRuns, kiRaised,
                   pool_exception, batches, report, returned, otherVars>>

\* What the analysis of the batch returned as its best resonance(s).
batch_best_of(hunter, batch) ==
    IF hunter = "scanner" THEN best_resonances(batch)
    ELSE analyze_batch_enhanced(hunter, batch).best

\* The update of best_overall with the batch best.
UpdateBest ==
    /\ pc = "analysed"
    /\ best_overall' = update_best(script, best_overall,
                                   batch_best_of(script, batch_of(all_zeros, batch_start)))
    /\ pc' = "best_updated"
    /\ UNCHANGED <<script, force_reload, fileState, fileLines, cache, run,
                   shutdown_requested, line_num, loaded, all_zeros, batch_start, batch_num,
                   session_results, reportCalls, outcome, finallyRuns, kiRaised, batches,
                   report, returned, pool_exception, otherVars>>

\* session_results.append({...}).  (The timestamp, the times and the analysis
\* tables of the appended summary are left out.)
AppendResult ==
    /\ pc = "best_updated"
    /\ session_results' = Append(session_results,
            [ batch |-> batch_num,
              zeros_analyzed |-> Min2(batch_start + INCREMENT, Len(all_zeros)),
              best_resonance |-> batch_best_of(script, batch_of(all_zeros, batch_start)) ])
    /\ pc' = "appended"
    /\ UNCHANGED <<script, force_reload, fileState, fileLines, cache, run,
                   shutdown_requested, line_num, loaded, all_zeros, batch_start, batch_num,
                   best_overall, reportCalls, outcome, finallyRuns, kiRaised, batches,
                   report, returned, pool_exception, otherVars>>

\* batch_num += 1, and the for statement takes the next i.
NextBatch ==
    /\ pc = "appended"
    /\ batch_num' = batch_num + 1
    /\ batch_start' = batch_start + INCREMENT
    /\ pc' = "loop_head"
    /\ UNCHANGED <<script, force_reload, fileState, fileLines, cache, run,
                   shutdown_requested, line_num, loaded, all_zeros, session_results,
                   best_overall, reportCalls, outcome, finallyRuns, kiRaised, batches,
                   report, returned, pool_exception, otherVars>>

\* generate_comprehensive_report(all_zeros, session_results, batch_num - 1, ...)
\* is called; it names the report file.
Report ==
    /\ pc = "report"
    /\ reportCalls' = reportCalls + 1
    /\ report' = report_header(all_zeros, batch_num - 1)
    /\ pc' = IF script = "scanner" THEN "report_write" ELSE "reporting"
    /\ UNCHANGED <<script, force_reload, fileState, fileLines, cache, run,
                   shutdown_requested, line_num, loaded, all_zeros, batch_start, batch_num,
                   session_results, best_overall, outcome, finallyRuns, kiRaised, batches,
                   returned, pool_exception, otherVars>>

\* The report of a sequential hunter analyses the whole list it was given:
\* analyze_batch_enhanced(zeros, final_batch).
ReportScan ==
    /\ pc = "reporting"
    /\ report' = [report EXCEPT !.scanned = all_zeros]
    /\ IF analysis_raises(script, all_zeros)
       THEN /\ outcome' = "exception"
            /\ pc' = "handler"
       ELSE /\ pc' = "report_write"
            /\ UNCHANGED outcome
    /\ UNCHANGED <<script, force_reload, fileState, fileLines, cache, run,
                   shutdown_requested, line_num, loaded, all_zeros, batch_start, batch_num,
                   session_results, best_overall, reportCalls, finallyRuns, kiRaised,
                   batches, returned, pool_exception, otherVars>>

\* The report file is written; what the writing raises is caught by the
\* top-level  except Exception.
ReportWrite ==
    /\ pc = "report_write"
    /\ IF report_raises(script, all_zeros)
       THEN /\ outcome' = "exception"
            /\ pc' = "handler"
            /\ UNCHANGED report
       ELSE /\ report' = [report EXCEPT !.complete = TRUE]
            /\ pc' = "after_report"
            /\ UNCHANGED outcome
    /\ UNCHANGED <<script, force_reload, fileState, fileLines, cache, run,
                   shutdown_requested, line_num, loaded, all_zeros, batch_start, batch_num,
                   session_results, best_overall, reportCalls, finallyRuns, kiRaised,
                   batches, returned, pool_exception, otherVars>>

\* The report returned and the main function runs to its end: the table of
\* the best resonances, plot_resonance_quality and the final summary in
\* scanner_z, the return statement in the sequential hunters.
AfterReport ==
    /\ pc = "after_report"
    /\ pc' = "epilogue"
    /\ UNCHANGED <<script, force_reload, fileState, fileLines, cache, run,
                   shutdown_requested, line_num, loaded, all_zeros, batch_start, batch_num,
                   session_results, best_overall, reportCalls, outcome, finallyRuns,
                   kiRaised, batches, report, returned, pool_exception, otherVars>>

\* The main function has returned; the closing prints of the try block.
Epilogue ==
    /\ pc = "epilogue"
    /\ outcome' = "returned"
    /\ pc' = "finally"
    /\ UNCHANGED <<script, force_reload, fileState, fileLines, cache, run,
                   shutdown_requested, line_num, loaded, all_zeros, batch_start, batch_num,
                   session_results, best_overall, reportCalls, finallyRuns, kiRaised,
                   batches, report, returned, pool_exception, otherVars>>

\* except KeyboardInterrupt / except Exception: the handler prints and ends.
Handler ==
    /\ pc = "handler"
    /\ pc' = "finally"
    /\ UNCHANGED <<script, force_reload, fileState, fileLines, cache, run,
                   shutdown_requested, line_num, loaded, all_zeros, batch_start, batch_num,
                   session_results, best_overall, reportCalls, outcome, finallyRuns,
                   kiRaised, batches, report, returned, pool_exception, otherVars>>

\* finally: the session-finished print; the script exits.
Finally ==
    /\ pc = "finally"
    /\ finallyRuns' = finallyRuns + 1
    /\ pc' = "done"
    /\ UNCHANGED <<script, force_reload, fileState, fileLines, cache, run,
                   shutdown_requested, line_num, loaded, all_zeros, batch_start, batch_num,
                   session_results, best_overall, reportCalls, outcome, kiRaised, batches,
                   report, returned, pool_exception, otherVars>>

\* The script is started again; the files are as the last run left them.
Restart ==
    /\ pc = "done"
    /\ run < MaxRuns
    /\ run' = run + 1
    /\ shutdown_requested' = FALSE
    /\ pc' = "start"
    /\ line_num' = 0
    /\ loaded' = << >>
    /\ all_zeros' = << >>
    /\ batch_start' = 0
    /\ batch_num' = 1
    /\ session_results' = << >>
    /\ best_overall' = None
    /\ reportCalls' = 0
    /\ outcome' = "running"
    /\ finallyRuns' = 0
    /\ kiRaised' = << >>
    /\ batches' = << >>
    /\ report' = None
    /\ force_reload' \in command_lines(script)
    /\ UNCHANGED <<script, fileState, fileLines, cache, returned, pool_exception, otherVars>>

Next ==
    \/ Signal
    \/ InstallSIGINT
    \/ InstallSIGTERM
    \/ EnterTry
    \/ Begin
    \/ CacheCheck
    \/ CacheRead
    \/ FileOpen
    \/ ReadLine
    \/ ReadEnd
    \/ FileLoaded
    \/ SaveOpen
    \/ SaveDump
    \/ SaveReturn
    \/ CheckLoaded
    \/ LoopHead
    \/ CallAnalysis
    \/ EnterPool
    \/ LeavePool
    \/ ComparativePool
    \/ AnalyseBatch
    \/ UpdateBest
    \/ AppendResult
    \/ NextBatch
    \/ Report
    \/ ReportScan
    \/ ReportWrite
    \/ AfterReport
    \/ Epilogue
    \/ Handler
    \/ Finally
    \/ Restart

Init == MainInit /\ ScanIdle /\ PoolIdle /\ MCIdle

Spec == Init /\ [][Next]_vars

\* ------------------------------- signals that reach the pool workers (SpecSig)
NextSig == Next \/ WorkerSignal

SpecSig == Init /\ [][NextSig]_vars

\* ------------------------------------------- the batch loop alone (SpecLoop)
\* Longest zero list the batch loop is run on.
MaxLoopZeros == 4

\* Files of number lines only, of one to n lines.
NumberFilesUpTo(n) ==
    { f \in FilesUpTo(n) :
        /\ f # << >>
        /\ \A k \in DOMAIN f : strip(f[k]) # << >> /\ ~float_raises(strip(f[k])) }

\* load_zeros_from_file on a whole file, without a shutdown request.
RECURSIVE load_lines(_, _, _)
load_lines(acc, n, lines) ==
    IF n > Len(lines) THEN acc
    ELSE load_lines(load_line(acc, n, lines[n]), n + 1, lines)

\* A later run at the point where load_enhanced_cache has returned the list
\* an earlier run loaded from the file and saved.
LoopInit ==
    /\ script \in Hunters
    /\ force_reload = FALSE
    /\ fileState = "ok"
    /\ fileLines \in NumberFilesUpTo(MaxLoopZeros)
    /\ cache = CacheList(load_lines(<< >>, 1, fileLines))
    /\ run = MaxRuns
    /\ shutdown_requested = FALSE
    /\ pc = "loaded"
    /\ line_num = 0
    /\ loaded = << >>
    /\ all_zeros = cache.data
    /\ batch_start = 0
    /\ batch_num = 1
    /\ session_results = << >>
    /\ best_overall = None
    /\ reportCalls = 0
    /\ outcome = "running"
    /\ finallyRuns = 0
    /\ kiRaised = << >>
    /\ pool_exception = "None"
    /\ batches = << >>
    /\ report = None
    /\ returned = << [from |-> "cache", zeros |-> cache.data] >>

NextLoop ==
    \/ Signal
    \/ CheckLoaded
    \/ LoopHead
    \/ CallAnalysis
    \/ EnterPool
    \/ LeavePool
    \/ ComparativePool
    \/ AnalyseBatch
    \/ UpdateBest
    \/ AppendResult
    \/ NextBatch
    \/ Report
    \/ ReportScan
    \/ ReportWrite
    \/ AfterReport
    \/ Epilogue
    \/ Handler
    \/ Finally

InitLoop == LoopInit /\ ScanIdle /\ PoolIdle /\ MCIdle

SpecLoop == InitLoop /\ [][NextLoop]_vars

\* ---------------------------------------- a KeyboardInterrupt is raised (SpecKI)
\* Positions of the main thread inside the hunter's main function: the
\* function that loads the zeros, runs the batch loop and calls the report.
\* In the Planck family the main function is main(), which calls that function
\* inside its own try statement: its first print, its try block, its except
\* handlers and its finally clause are positions of the main function too.
MainFunctionPcs(hunter) ==
    {"load_cache", "cache_read", "file_open", "reading", "read_done",
     "save_open", "save_dump", "saved", "loaded", "loop_head", "in_batch",
     "analysing", "in_pool", "in_control_pool", "analysed", "best_updated",
     "appended", "report", "reporting", "report_write", "after_report"}
    \cup (IF hunter \in RelativeHunters
          THEN {"main", "try", "epilogue", "handler", "finally"} ELSE { })

\* KeyboardInterrupts raised in one run of the script.
MaxInterrupts == 1

\* len(resonances) > 10: the resonance lists on which alpha's
\* enhanced_statistical_analysis goes on to the K-S and Anderson-Darling tests
\* (more than one resonance here).
ANDERSON_ABOVE == 1

\* Whether analysing zs calls stats.anderson, which zvt_alpha_hunter.py wraps
\* in  try: ... except: results['anderson_darling'] = None.
anderson_called(hunter, zs) ==
    /\ hunter = "alpha"
    /\ Len(zs) >= MINIMUM_FOR_STATS
    /\ ~analysis_raises(hunter, zs)
    /\ \/ \E t \in SeqRange(TOLERANCE_LEVELS(hunter)) :
              Len(resonances_for(hunter, zs, main_constant(hunter), t)) > ANDERSON_ABOVE
       \/ \E n \in DOMAIN CONTROL_CONSTANTS_OF(hunter) :
              Len(resonances_for(hunter, zs, CONTROL_CONSTANTS_OF(hunter)[n],
                                 DEFAULT_TOLERANCE(hunter))) > ANDERSON_ABOVE

\* Where a KeyboardInterrupt raised at position p may end up, zs being the
\* list under analysis at p and c the cache file.
\*   "swallowed":  raised in the try body around pickle.load in
\*                 load_enhanced_cache of the sequential hunters, the bare
\*                 except:  catches it; the file is loaded next
\*   "ignored":    raised inside stats.anderson, the bare  except:  around it
\*                 catches it and the analysis goes on
\*   "caught":     raised inside the top-level try block:  except KeyboardInterrupt;
\*                 so is one raised while the bare  except:  clause of
\*                 load_enhanced_cache itself runs, which it does when the
\*                 cache file does not unpickle
\*   "propagated": raised before the try block (at module level or at the
\*                 first print of the Planck family's main()), or in the
\*                 finally clause: it
\*                 leaves the script and the session-finished print does not
\*                 complete
\*   "handler":    raised inside an except handler: the finally clause runs
\*                 and the interrupt leaves the script
interrupt_always_caught(hunter, p, zs, c) == {"caught"}

interrupt_lands(hunter, p, zs, c) ==
    IF p \in {"start", "sigint_set", "main", "finally"} THEN {"propagated"}
    ELSE IF p = "handler" THEN {"handler"}
    ELSE IF p = "cache_read" /\ hunter # "scanner"
    THEN {"swallowed"} \cup (IF c.kind = "corrupt" THEN {"caught"} ELSE { })
    ELSE IF p \in {"analysing", "reporting"} /\ anderson_called(hunter, zs)
    THEN {"caught", "ignored"}
    ELSE {"caught"}

\* The list being analysed at a position: the batch, or all zeros in the report.
analysed_at(p) ==
    IF p = "analysing" THEN batch_of(all_zeros, batch_start)
    ELSE IF p = "reporting" THEN all_zeros
    ELSE << >>

KeyboardInterrupt ==
    /\ pc \notin {"idle", "done"}
    /\ Len(kiRaised) < MaxInterrupts
    /\ kiRaised' = Append(kiRaised, pc)
    /\ \E lands \in interrupt_lands(script, pc, analysed_at(pc), cache) :
           /\ pc' = CASE lands = "swallowed" -> "file_open"
                      [] lands = "ignored" -> pc
                      [] lands = "propagated" -> "done"
                      [] lands = "handler" -> "finally"
                      [] OTHER -> "handler"
           /\ outcome' = CASE lands = "swallowed" -> outcome
                           [] lands = "ignored" -> outcome
                           [] lands = "propagated" -> "propagated"
                           [] lands = "handler" -> "propagated"
                           [] OTHER -> "interrupted"
    /\ UNCHANGED <<script, force_reload, fileState, fileLines, cache, run,
                   shutdown_requested, line_num, loaded, all_zeros, batch_start, batch_num,
                   session_results, best_overall, reportCalls, finallyRuns,
                   pool_exception, batches, report, returned, otherVars>>

NextKI == Next \/ KeyboardInterrupt \/ SignalUnhandled

SpecKI == Init /\ [][NextKI]_vars

\* ------------------------------------------------------------------------
\* Properties of the scan functions (SpecScan)

\* Distance from g to the nearest integer multiple of c, computed from the
\* multiples themselves rather than from the remainder.
Multiples(c) == { k * c : k \in (0 - 2) .. (MaxGamma + 2) }

NearestMultipleDist(g, c) ==
    CHOOSE d \in 0 .. c :
        /\ \E m \in Multiples(c) : Abs(g - m) = d
        /\ \A m \in Multiples(c) : Abs(g - m) >= d

\* Indices of the zeros of a list that satisfy a predicate on gamma.
ResultIndices(res) == { res[j][1] : j \in DOMAIN res }

\* C1: in zvt_alpha_hunter.find_multi_tolerance_resonances and
\* scanner_z.find_resonances_for_constant the result list for (c, t) holds
\* exactly one entry for each input zero whose circular distance to the nearest
\* multiple of c is below t, in input order, and no entry for any other zero;
\* a zero just below a multiple of c is treated like one just above it.
C1_ExactResonances ==
    (scanPc # "idle" /\ scanHunter \in AbsoluteHunters) =>
        /\ \A i \in DOMAIN scanZeros :
              Cardinality({ j \in DOMAIN scanRes :
                              /\ scanRes[j][1] = scanZeros[i][1]
                              /\ scanRes[j][2] = scanZeros[i][2] })
                = IF RLess(RInt(NearestMultipleDist(scanZeros[i][2], scanConst)), scanTol)
                  THEN 1 ELSE 0
        /\ \A j \in DOMAIN scanRes :
              /\ \E i \in DOMAIN scanZeros :
                    scanRes[j][1] = scanZeros[i][1] /\ scanRes[j][2] = scanZeros[i][2]
              /\ scanRes[j][3] = NearestMultipleDist(scanRes[j][2], scanConst)
              /\ scanRes[j][4] = scanTol
        /\ \A j1, j2 \in DOMAIN scanRes : j1 < j2 => scanRes[j1][1] < scanRes[j2][1]

\* A scan by an absolute-tolerance hunter that collected some zeros but not
\* all, one of them lying just below a multiple of the constant.
C1_Witness ==
    /\ scanPc = "found"
    /\ scanHunter \in AbsoluteHunters
    /\ Len(scanRes) >= 1
    /\ Len(scanRes) < Len(scanZeros)
    /\ \E j \in DOMAIN scanRes : 2 * (scanRes[j][2] % scanConst) > scanConst

\* Indices of the zeros whose circular distance is below the bound (a rational).
ZerosWithin(zeros, c, bound) ==
    { zeros[i][1] : i \in { k \in DOMAIN zeros :
                              RLess(RInt(NearestMultipleDist(zeros[k][2], c)), bound) } }

\* C2 as stated: in every hunter the circular distance itself is compared with
\* the tolerance, so every hunter selects the set zvt_alpha_hunter selects.
C2_SameSetAsAlpha ==
    scanPc # "idle" =>
        ResultIndices(scanRes) = ZerosWithin(scanZeros, scanConst, scanTol)

\* C2 amended: the Planck, Rydberg, Alcubierre, light-speed, nuclear-cosmic and
\* spacetime hunters compare the relative error min_distance / c with the
\* tolerance; a zero is collected exactly when its circular distance is below
\* t * c, which is the set zvt_alpha_hunter selects for the tolerance t * c.
C2_RelativeThreshold ==
    (scanPc # "idle" /\ scanHunter \in RelativeHunters) =>
        /\ ResultIndices(scanRes)
             = ZerosWithin(scanZeros, scanConst, RMul(scanTol, RInt(scanConst)))
        /\ ResultIndices(scanRes)
             = ResultIndices(resonances_for("alpha", scanZeros, scanConst,
                                            RMul(scanTol, RInt(scanConst))))
        /\ \A j \in DOMAIN scanRes :
              REq(scanRes[j][5], Rat(NearestMultipleDist(scanRes[j][2], scanConst), scanConst))

\* A relative-tolerance hunter collected a zero whose circular distance is not
\* below the tolerance.
C2_Witness ==
    /\ scanPc = "found"
    /\ scanHunter \in RelativeHunters
    /\ \E j \in DOMAIN scanRes : ~RLess(RInt(scanRes[j][3]), scanTol)
    /\ Len(scanRes) < Len(scanZeros)

\* C3: whenever enhanced_statistical_analysis returns a result,
\* significance_factor = resonant_count / expected_random with
\* expected_random = total_zeros * 2 * tolerance / c (absolute tolerance) or
\* total_zeros * 2 * tolerance (relative tolerance); the factor is infinite
\* only when expected_random is 0.
C3_SignificanceFactor ==
    (scanPc = "analysed" /\ scanStats # None /\ "raises" \notin DOMAIN scanStats) =>
        LET total == Len(scanZeros)
            count == Len(scanRes)
            expected == IF scanHunter \in AbsoluteHunters
                        THEN Rat(total * 2 * scanTol[1], scanTol[2] * scanConst)
                        ELSE Rat(total * 2 * scanTol[1], scanTol[2])
            factor == scanStats.significance_factor
        IN  /\ scanStats.total_zeros = total
            /\ scanStats.resonant_count = count
            /\ REq(scanStats.expected_random, expected)
            /\ (factor = Inf) => expected[1] = 0
            /\ (factor # Inf) => /\ factor[2] > 0
                                 /\ factor[1] * expected[1] = count * expected[2] * factor[2]

\* A result was returned for a scan that found some but not all zeros, for an
\* absolute tolerance wider than half the constant.
C3_Witness ==
    /\ scanPc = "analysed"
    /\ scanStats # None
    /\ "raises" \notin DOMAIN scanStats
    /\ scanStats.resonant_count >= 1
    /\ scanStats.resonant_count < scanStats.total_zeros
    /\ scanConst > 1

\* ------------------------------------------------------------------------
\* Properties of the worker pool (SpecPool)

\* C7: the mapping returned by scanner_z.find_multi_tolerance_resonances does
\* not depend on worker scheduling: it has exactly one key per input constant,
\* and the value under each constant is the scan of that constant alone with
\* that constant's own tolerance list (its FORCE_TOLERANCES entry, or
\* TOLERANCE_LEVELS when it has none).
C7_PoolResultDeterministic ==
    poolPc = "returned" =>
        /\ DOMAIN all_results = { poolTasks[k][1] : k \in DOMAIN poolTasks }
        /\ \A k \in DOMAIN poolTasks :
              LET name == poolTasks[k][1]
                  c == poolTasks[k][2]
                  own == IF name \in DOMAIN FORCE_TOLERANCES
                         THEN FORCE_TOLERANCES[name]
                         ELSE << Rat(5, 2), Rat(3, 2), Rat(1, 2) >>
              IN  /\ DOMAIN all_results[name] = SeqRange(own)
                  /\ \A t \in SeqRange(own) :
                        /\ ResultIndices(all_results[name][t]) = ZerosWithin(poolZeros, c, t)
                        /\ Len(all_results[name][t])
                             = Cardinality(ZerosWithin(poolZeros, c, t))
                        /\ \A j \in DOMAIN all_results[name][t] :
                              /\ <<all_results[name][t][j][1], all_results[name][t][j][2]>>
                                    \in SeqRange(poolZeros)
                              /\ all_results[name][t][j][4] = t

\* The call returned after a later task had finished before an earlier one,
\* with a mapping in which a constant with its own tolerance list has an entry
\* that the default list would not have produced.
C7_Witness ==
    /\ poolPc = "returned"
    /\ \E i, j \in DOMAIN poolFinished : i < j /\ poolFinished[i] > poolFinished[j]
    /\ "forte" \in DOMAIN all_results
    /\ Len(all_results["forte"][Rat(7, 2)]) >= 1
    /\ Len(all_results["forte"][Rat(3, 2)]) < Len(all_results["forte"][Rat(7, 2)])

\* ------------------------------------------------------------------------
\* Properties of the Monte Carlo drivers (SpecMC)

\* How often simulation id i has a result in a result list.
ResultCount(results, i) ==
    Cardinality({ j \in DOMAIN results : results[j].simulation_id = i })

\* Every id 0..n_simulations-1 was submitted exactly once.
SubmittedOnce(futures) ==
    /\ \A i \in 0 .. (n_simulations - 1) :
          Cardinality({ k \in DOMAIN futures : futures[k].simulation_id = i }) = 1
    /\ \A k \in DOMAIN futures : futures[k].simulation_id \in 0 .. (n_simulations - 1)

\* The result list holds exactly one result of each future in  wanted  and no
\* other result.
HoldsExactly(futures, results, wanted) ==
    /\ \A k \in DOMAIN futures :
          ResultCount(results, futures[k].simulation_id) = IF k \in wanted THEN 1 ELSE 0
    /\ \A j \in DOMAIN results :
          \E k \in DOMAIN futures : results[j].simulation_id = futures[k].simulation_id

\* What is stored per perturbation level belongs to the level.
StoredByLevel ==
    /\ \A s \in DOMAIN mcStored :
          /\ mcStored[s][1] = perturbation_levels[s]
          /\ \A j \in DOMAIN mcStored[s][2] :
                mcStored[s][2][j].perturbation_level = perturbation_levels[s]
          /\ \A i \in 0 .. (n_simulations - 1) : ResultCount(mcStored[s][2], i) <= 1
    /\ (mcPc = "returned" /\ mcKind = "perturbation") =>
          /\ Len(mcStored) = Len(perturbation_levels)
          /\ mcStored[Len(mcStored)][2] = mcResults

\* The simulations whose worker did not raise.
DidNotRaise(futures) ==
    { k \in DOMAIN futures : futures[k].exception \notin WorkerExceptions }

\* C8 as stated: in run_monte_carlo_parallel, and per perturbation level in
\* run_perturbation_analysis, each simulation id is submitted exactly once and
\* the collected results hold exactly one result for every simulation whose
\* worker did not raise and none for those that raised, whatever the
\* completion order; a failing simulation never prevents the others from
\* being collected, so this is so however the pass ends.
C8_AllCollected ==
    /\ (mcPc \in {"enter", "returned", "raised"} /\ Len(mcFutures) > 0) =>
          /\ SubmittedOnce(mcFutures)
          /\ HoldsExactly(mcFutures, mcResults, DidNotRaise(mcFutures))
    /\ StoredByLevel

\* C8, amended: each simulation id is submitted at most once, and exactly
\* once in a pass that returns.  The results always hold exactly one result
\* of every future that was yielded with a value and nothing else, whatever
\* the completion order; a future that raised an Exception leaves no result
\* and the loop goes on, so a pass that returns holds one result for every
\* future without an exception.  A future whose exception is not an Exception
\* (a worker's KeyboardInterrupt) ends the pass when it is yielded: the call
\* raises and the futures not yet yielded are never collected.  A pass ends
\* by an exception only in this way or by a submission to a broken pool, and
\* the call is left, either way, only when every submitted simulation has
\* finished.
C8_CollectedUnlessAborted ==
    /\ \A i \in 0 .. (n_simulations - 1) :
          Cardinality({ k \in DOMAIN mcFutures : mcFutures[k].simulation_id = i }) <= 1
    /\ HoldsExactly(mcFutures, mcResults,
                    { k \in SeqRange(mcYielded) : mcFutures[k].exception = "None" })
    /\ \A a, b \in DOMAIN mcYielded : a # b => mcYielded[a] # mcYielded[b]
    /\ (mcPc \in {"enter", "returned"} /\ Len(mcFutures) > 0) =>
          /\ SubmittedOnce(mcFutures)
          /\ SeqRange(mcYielded) = DOMAIN mcFutures
          /\ \A k \in DOMAIN mcFutures : mcFutures[k].exception \in {"None"} \cup
                                             { e \in FutureExceptions : is_Exception(e) }
    /\ \A a \in DOMAIN mcYielded :
          ~is_Exception(mcFutures[mcYielded[a]].exception)
              /\ mcFutures[mcYielded[a]].exception # "None"
          => (a = Len(mcYielded) /\ mcPc \in {"exiting", "raised"})
    /\ mcPc \in {"exiting", "raised"} =>
          \/ /\ mcYielded # << >>
             /\ mcFutures[mcYielded[Len(mcYielded)]].exception = "KeyboardInterrupt"
          \/ /\ mcBroken
             /\ Len(mcFutures) < n_simulations
             /\ mcYielded = << >>
    /\ mcPc \in {"enter", "returned", "raised"} =>
          \A k \in DOMAIN mcFutures : mcFutures[k].state = "finished"
    /\ StoredByLevel

\* validacao.py: the first level returned without the result of a simulation
\* that raised an Exception and with those of all the others; in the second
\* level a simulation with a value was yielded, then a worker's
\* KeyboardInterrupt submitted before it ended the pass, while a finished
\* simulation with a value was not yet yielded.
C8_Witness ==
    /\ mcKind = "perturbation"
    /\ mcPc = "raised"
    /\ Len(mcStored) = 1
    /\ Len(mcStored[1][2]) = n_simulations - 1
    /\ Len(mcResults) = 1
    /\ \E a, b \in DOMAIN mcYielded :
          /\ a < b
          /\ mcFutures[mcYielded[a]].exception = "None"
          /\ mcFutures[mcYielded[b]].exception = "KeyboardInterrupt"
          /\ mcYielded[a] > mcYielded[b]
    /\ \E k \in DOMAIN mcFutures :
          /\ k \notin SeqRange(mcYielded)
          /\ mcFutures[k].state = "finished"
          /\ mcFutures[k].exception = "None"

\* ------------------------------------------------------------------------
\* Properties of the file loader and the cache (Spec)

\* What Python's float() makes of each line that holds a number, in tenths;
\* every other line of FileLineSet is blank or raises ValueError.
NumberLines ==
    (<< "1", ".", "4" >> :> 14) @@ (<< ".", "5" >> :> 5)

\* zs is a list of (line number, value) pairs of number lines of the file, in
\* strictly increasing order of line number.
WellFormedZeros(zs) ==
    /\ \A k \in DOMAIN zs :
          /\ zs[k][1] \in 1 .. Len(fileLines)
          /\ fileLines[zs[k][1]] \in DOMAIN NumberLines
          /\ zs[k][2] = NumberLines[fileLines[zs[k][1]]]
    /\ \A j, k \in DOMAIN zs : j < k => zs[j][1] < zs[k][1]

\* C4: the list load_zeros_from_file returns, and every list
\* load_enhanced_cache writes to the cache, holds (index, gamma) pairs with
\* strictly increasing indices, each index the 1-based number of the line the
\* value was parsed from; blank and unparsable lines give no pair.
C4_LoadedListWellFormed ==
    /\ pc \in {"reading", "read_done"} => WellFormedZeros(loaded)
    /\ cache.kind = "list" => WellFormedZeros(cache.data)

\* A list of two zeros whose first pair comes from line 2 has been returned and
\* written to the cache.
C4_Witness ==
    /\ pc = "loaded"
    /\ Len(loaded) = 2
    /\ loaded[1][1] = 2
    /\ cache = CacheList(loaded)

\* The line numbers of the number lines among the first n lines of the file.
NumberLineIndices(n) == { k \in 1 .. n : fileLines[k] \in DOMAIN NumberLines }

\* C5 as stated: load_zeros_from_file returns a list holding every line that
\* parses, and the empty list for a file that cannot be read.
C5_EveryParsableLineLoaded ==
    pc = "read_done" =>
        IF fileState = "ok"
        THEN ResultIndices(loaded) = NumberLineIndices(Len(fileLines))
        ELSE loaded = << >>

\* C5, amended: load_zeros_from_file returns without raising; of the lines
\* the loop reached, the unparsable ones are skipped and every other non-blank
\* one is loaded; the loop stops short of the end of the file only when a
\* shutdown has been requested; a file that cannot be read gives the empty list.
C5_LoadedUpToShutdown ==
    /\ pc \in {"reading", "read_done"} => outcome = "running"
    /\ pc = "read_done" =>
        IF fileState = "ok"
        THEN /\ ResultIndices(loaded) = NumberLineIndices(line_num)
             /\ line_num < Len(fileLines) => shutdown_requested
        ELSE loaded = << >>

\* The load was cut short by a shutdown request after an unparsable line was
\* skipped and a number loaded, with a number line left unread.
C5_Witness ==
    /\ pc = "read_done"
    /\ shutdown_requested
    /\ line_num < Len(fileLines)
    /\ fileLines[line_num + 1] \in DOMAIN NumberLines
    /\ \E k \in 1 .. line_num : fileLines[k] = << "1", "x" >>
    /\ loaded # << >>

\* ------------------------------------------------------------------------
\* Properties of the run (Spec)

\* Positions up to the return of load_enhanced_cache, inside the body of the
\* batch loop, in the loop, inside generate_comprehensive_report, and after
\* the loop.
LoaderPcs == {"start", "sigint_set", "main", "try", "load_cache", "cache_read", "file_open", "reading",
              "read_done", "save_open", "save_dump", "saved"}
BatchPcs == {"in_batch", "analysing", "in_pool", "in_control_pool", "analysed",
             "best_updated", "appended"}
LoopPcs == {"loop_head"} \cup BatchPcs
ReportPcs == {"reporting", "report_write"}
AfterLoopPcs == {"report", "after_report", "epilogue", "handler", "finally", "done"}
                \cup ReportPcs

C6_Order ==
    \* report generation is invoked at most once, and once it has been invoked
    \* the run is past the loop
    /\ reportCalls <= 1
    /\ reportCalls = 1 => pc \in AfterLoopPcs \ {"report"}
    \* a batch is analysed only when the loader is done and returned zeros
    /\ (pc \in LoopPcs \/ session_results # << >>) =>
           (pc \notin LoaderPcs /\ all_zeros # << >>)
    \* a run that loaded zeros has invoked the report when it ends
    /\ (pc = "done" /\ all_zeros # << >>) => reportCalls = 1

C6_Step ==
    \* the list the batches are cut from does not change once the loop is on
    /\ pc \in LoopPcs \cup {"report"} \cup ReportPcs => all_zeros' = all_zeros
    \* the report is invoked from the end of the loop only
    /\ reportCalls' > reportCalls =>
           /\ pc = "report"
           /\ ~loop_continues(batch_start, Len(all_zeros), shutdown_requested)
    /\ pc' = "report" => pc \in {"loop_head", "report"}
    \* no batch is analysed after the report has started
    /\ pc' \in BatchPcs => (pc \in LoopPcs /\ reportCalls = 0)

BatchAbandoned ==
    /\ pc \in BatchPcs
    /\ pc' = "handler"
    /\ outcome' \in {"interrupted", "exception"}
    /\ session_results' = session_results
    /\ Len(session_results) = batch_num - 1
    /\ reportCalls' = 0

C9_InterruptCaughtAtTop ==
    \A k \in DOMAIN kiRaised :
        kiRaised[k] \in MainFunctionPcs(script) =>
            /\ outcome = "interrupted"
            /\ pc = "done" => finallyRuns = 1

\* ------------------------------------------------------------------------
\* Properties of the batch loop (SpecLoop)

\* ceil(n / INCREMENT)
BatchCount(n) == (n + INCREMENT - 1) \div INCREMENT

RECURSIVE Concat(_)
Concat(seqs) == IF seqs = << >> THEN << >> ELSE Head(seqs) \o Concat(Tail(seqs))

\* C11: without a shutdown request the loop over N loaded zeros analyses the
\* slices [i, min(i + INCREMENT, N)) for i = 0, INCREMENT, ...: the batches
\* are contiguous, in list order and cover every zero once; ceil(N / INCREMENT)
\* batches are recorded, numbered 1, 2, ..., with strictly increasing
\* zeros_analyzed values that end at N.
C11_BatchesPartitionZeros ==
    LET N == Len(all_zeros)
    IN  \* the slice of a batch is handed over before its summary is recorded
        /\ Len(batches) = Len(session_results)
                             + (IF pc \in BatchPcs \ {"in_batch", "appended"} THEN 1 ELSE 0)
        /\ \A k \in DOMAIN batches :
              batches[k] = SubSeq(all_zeros, (k - 1) * INCREMENT + 1,
                                  Min2(k * INCREMENT, N))
        /\ \A k \in DOMAIN session_results :
              /\ session_results[k].batch = k
              /\ session_results[k].zeros_analyzed = Min2(k * INCREMENT, N)
              /\ k > 1 => session_results[k - 1].zeros_analyzed
                              < session_results[k].zeros_analyzed
        /\ (pc \in AfterLoopPcs /\ ~shutdown_requested) =>
              /\ Len(session_results) = BatchCount(N)
              /\ Concat(batches) = all_zeros
              /\ session_results[Len(session_results)].zeros_analyzed = N

\* An undisturbed run over three zeros has ended: a full batch and a short one.
C11_Witness ==
    /\ pc = "done"
    /\ ~shutdown_requested
    /\ Len(all_zeros) = 3
    /\ Len(batches) = 2
    /\ Len(batches[2]) = 1

\* The positions in zs of the zeros that are resonances of the main constant
\* at DEFAULT_TOLERANCE.
DefaultResonant(hunter, zs) ==
    { k \in DOMAIN zs :
        is_resonance(hunter, zs[k][2], main_constant(hunter), DEFAULT_TOLERANCE(hunter)) }

\* C12: after a run without a shutdown request the best_overall of a
\* sequential hunter is a closest resonance over all loaded zeros: no loaded
\* zero that is a resonance at DEFAULT_TOLERANCE is closer, and best_overall
\* is None only if no loaded zero is a resonance at DEFAULT_TOLERANCE.
C12_BestIsClosestOfAll ==
    (script # "scanner" /\ ~shutdown_requested
        /\ pc \in AfterLoopPcs) =>
       LET resonant == DefaultResonant(script, all_zeros)
       IN  IF best_overall = None
           THEN resonant = { }
           ELSE \A k \in resonant :
                   min_distance(all_zeros[k][2], main_constant(script)) >= best_overall[3]

\* The batch bests reported so far for a constant: those of session_results
\* that are not None (sequential hunters), those that have an entry for the
\* constant (scanner_z), in batch order.
RECURSIVE BestsSoFar(_, _, _)
BestsSoFar(hunter, name, results) ==
    IF results = << >> THEN << >>
    ELSE LET b == results[Len(results)].best_resonance
             before == BestsSoFar(hunter, name, SubSeq(results, 1, Len(results) - 1))
         IN  IF hunter = "scanner"
             THEN (IF name \in DOMAIN b THEN Append(before, b[name]) ELSE before)
             ELSE (IF b # None THEN Append(before, b) ELSE before)

\* e is the entry of least distance in bests, the earliest one of that distance.
EarliestLeast(e, bests) ==
    \E k \in DOMAIN bests :
        /\ e = bests[k]
        /\ \A j \in DOMAIN bests : bests[j][3] >= bests[k][3]
        /\ \A j \in 1 .. (k - 1) : bests[j][3] > bests[k][3]

\* The batch summaries whose best has been reported to the update of
\* best_overall: those recorded, and at the point between the update and
\* session_results.append the one of the batch in hand.
ReportedSoFar ==
    IF pc = "best_updated"
    THEN Append(session_results,
                [ batch |-> batch_num,
                  zeros_analyzed |-> Min2(batch_start + INCREMENT, Len(all_zeros)),
                  best_resonance |-> batch_best_of(script, batch_of(all_zeros, batch_start)) ])
    ELSE session_results

C13_IsMinimum ==
    pc \in LoopPcs \cup {"report"} =>
        IF script = "scanner"
        THEN /\ DOMAIN best_overall =
                  { FUNDAMENTAL_FORCES[k][1] : k \in DOMAIN FUNDAMENTAL_FORCES }
                  \cap { n \in { FUNDAMENTAL_FORCES[k][1] : k \in DOMAIN FUNDAMENTAL_FORCES } :
                           BestsSoFar(script, n, ReportedSoFar) # << >> }
             /\ \A n \in DOMAIN best_overall :
                    EarliestLeast(best_overall[n], BestsSoFar(script, n, ReportedSoFar))
        ELSE IF BestsSoFar(script, "", ReportedSoFar) = << >>
             THEN best_overall = None
             ELSE EarliestLeast(best_overall, BestsSoFar(script, "", ReportedSoFar))

C13_Replaced ==
    pc \in BatchPcs =>
        IF script = "scanner"
        THEN \A n \in DOMAIN best_overall :
                 /\ n \in DOMAIN best_overall'
                 /\ best_overall'[n][3] <= best_overall[n][3]
                 /\ best_overall'[n] # best_overall[n] =>
                        best_overall'[n][3] < best_overall[n][3]
        ELSE best_overall # None =>
                 /\ best_overall' # None
                 /\ best_overall'[3] <= best_overall[3]
                 /\ best_overall' # best_overall => best_overall'[3] < best_overall[3]

\* C13: at every point of the batch loop the global best (per constant in
\* scanner_z) is the minimum of the batch bests reported so far; it is
\* replaced only by a batch best of strictly smaller distance, so its distance
\* never increases, and on ties the resonance of the earlier batch is kept.
C13_BestIsRunningMinimum == []C13_IsMinimum /\ [][C13_Replaced]_vars

\* Two batches of a sequential hunter reported bests of equal distance and the
\* global best is the one of the first batch.
C13_Witness ==
    /\ script # "scanner"
    /\ Len(session_results) = 2
    /\ session_results[1].best_resonance # None
    /\ session_results[2].best_resonance # None
    /\ session_results[1].best_resonance[3] = session_results[2].best_resonance[3]
    /\ session_results[1].best_resonance # session_results[2].best_resonance
    /\ best_overall = session_results[1].best_resonance

\* C14: for every non-empty zero list generate_comprehensive_report runs to
\* completion without raising, also when fewer than MINIMUM_FOR_STATS zeros
\* are loaded and when a control constant has no resonance at
\* DEFAULT_TOLERANCE.
C14_ReportCompletes ==
    (report # None /\ all_zeros # << >> /\ pc \notin ReportPcs) => report.complete

\* C15: when shutdown is requested before all batches have run, the final
\* report describes only the zeros of the batches that were processed: its
\* analysed-zero count is the zeros_analyzed of the last recorded batch, and
\* no zero beyond that point is scanned while the report is produced.
C15_ReportCoversProcessedOnly ==
    ( /\ report # None
      /\ session_results # << >>
      /\ Len(session_results) < BatchCount(Len(all_zeros)) ) =>
        LET processed == session_results[Len(session_results)].zeros_analyzed
        IN  /\ report.zeros_analysed = processed
            /\ \A k \in DOMAIN report.scanned : report.scanned[k][1] <= processed

\* C16: for an unchanged source file, load_enhanced_cache of a sequential
\* hunter returns the same zero list whether it reads the source file (no
\* usable cache) or the cache written by that earlier call: two consecutive
\* runs analyse the same zeros.
C16_SameZerosFromFileAndCache ==
    ( /\ script # "scanner"
      /\ Len(returned) = 2
      /\ returned[1].from = "file"
      /\ returned[2].from = "cache" ) =>
        returned[2].zeros = returned[1].zeros

\* C17: a cache file written by load_enhanced_cache holds every parsable
\* line of the source file; when shutdown is requested while the file is
\* being read, no truncated list is saved.
C17_CacheHoldsEveryParsableLine ==
    (cache.kind = "list" /\ cache.data # << >>) =>
        ResultIndices(cache.data) = NumberLineIndices(Len(fileLines))

\* C18: load_enhanced_cache of scanner_z (and of scanner_zeta) returns the
\* empty list only when zeros can be had from neither place: with a usable
\* non-empty list in the cache, or a readable source file with at least one
\* valid line, the list it returns is not empty.
C18_EmptyOnlyWithoutZeros ==
    (script = "scanner" /\ pc = "loaded" /\ all_zeros = << >>) =>
        /\ ~(cache.kind = "list" /\ cache.data # << >>)
        /\ ~(fileState = "ok" /\ NumberLineIndices(Len(fileLines)) # {})

====
